---- MODULE Spec2Model ----
(***************************************************************************)
(* Conversation-orchestration core of the financial advisory service:      *)
(* the decision-tree engine (ai/tree_model.py) driven through one tree     *)
(* session whose context dictionary is handed from call to call, and the   *)
(* intake form (ai/user_profile_form.py) with the chat router              *)
(* (ai/ai_chat_selector.py) that creates, completes and replaces it,       *)
(* classifies messages and chooses between the form, the tree prompt and   *)
(* an advisor, and the /chat endpoint (main.py) in front of the router.    *)
(*                                                                         *)
(* A Python dict is a function whose DOMAIN is its key set; None is the    *)
(* string NONE, an absent key of a request body is ABSENT, and a JSON      *)
(* value that cannot be a dict key (a list) is UNHASHABLE.                 *)
(***************************************************************************)
EXTENDS Integers, Sequences, FiniteSets, TLC

VARIABLES
  context,   \* the session's context dict (request.context), mutated in place
  cur,       \* node id the caller was last given (response.node.id)
  request,   \* the last DecisionTreeRequest: current_node_id, answer
  response,  \* the last DecisionTreeResponse, or that the call raised
  path,      \* the {node_id, selection} pairs of the answered requests
  replay,    \* arguments and result of the last process_decision_step
  form,      \* the user's UserProfileForm (the router's user_forms entry)
  call,      \* the last form or router operation: its name, input and reply
  profile_stored,  \* whether the store holds a user_profiles row for the user
  turn,      \* the last routing operation: its inputs and what it decided
  users      \* two users of one router and one tree engine (SpecUsers)

treeVars == <<context, cur, request, response, path, replay>>

formVars == <<form, call, profile_stored, turn>>

userVars == <<users>>

vars ==
  <<context, cur, request, response, path, replay, form, call, profile_stored,
    turn, users>>

\* ------------------------------------------------------------------ bounds
MaxPath == 4

MaxReplayLen == 2

\* The turns a user takes in the two-user system.
MaxTurns == 3

\* ------------------------------------------------------- Python values
NONE == "<None>"

ABSENT == "<absent>"

UNHASHABLE == "<list>"

INVALID == "invalid_option"

EmptyDict == [k \in {} |-> ""]

Truthy(v) == v \notin {NONE, ABSENT, ""}

DictSet(d, k, v) == [x \in (DOMAIN d) \cup {k} |-> IF x = k THEN v ELSE d[x]]

DictGet(d, k, default) == IF k \in DOMAIN d THEN d[k] ELSE default

Range(s) == {s[i] : i \in DOMAIN s}

\* ------------------------------------------------- the static decision graph
tree ==
  [
    root |->
      [id |-> "root", type |-> "question",
       options |-> <<"emergency_fund", "debt_reduction", "home_purchase", "retirement", "education", "vacation", "other">>,
       next_steps |-> [emergency_fund |-> "ef_timeframe", debt_reduction |-> "debt_type", home_purchase |-> "home_timeframe", retirement |-> "retirement_age", education |-> "education_timeframe", vacation |-> "vacation_timeframe", other |-> "other_goal_amount"]],
    ef_timeframe |->
      [id |-> "ef_timeframe", type |-> "question",
       options |-> <<"short", "medium", "long">>,
       next_steps |-> [short |-> "ef_amount", medium |-> "ef_amount", long |-> "ef_amount"]],
    ef_amount |->
      [id |-> "ef_amount", type |-> "question",
       options |-> <<"three", "six", "twelve">>,
       next_steps |-> [three |-> "ef_savings_method", six |-> "ef_savings_method", twelve |-> "ef_savings_method"]],
    ef_savings_method |->
      [id |-> "ef_savings_method", type |-> "question",
       options |-> <<"automatic", "percentage", "surplus">>,
       next_steps |-> [automatic |-> "ef_recommendation", percentage |-> "ef_recommendation", surplus |-> "ef_recommendation"]],
    ef_recommendation |->
      [id |-> "ef_recommendation", type |-> "recommendation",
       options |-> <<>>,
       next_steps |-> EmptyDict],
    debt_type |->
      [id |-> "debt_type", type |-> "question",
       options |-> <<"credit_card", "consumer", "mortgage", "student", "multiple">>,
       next_steps |-> [credit_card |-> "debt_total_amount", consumer |-> "debt_total_amount", mortgage |-> "debt_total_amount", student |-> "debt_total_amount", multiple |-> "debt_total_amount"]],
    debt_total_amount |->
      [id |-> "debt_total_amount", type |-> "question",
       options |-> <<"small", "medium", "large", "very_large">>,
       next_steps |-> [small |-> "debt_strategy", medium |-> "debt_strategy", large |-> "debt_strategy", very_large |-> "debt_strategy"]],
    debt_strategy |->
      [id |-> "debt_strategy", type |-> "question",
       options |-> <<"avalanche", "snowball", "consolidation", "not_sure">>,
       next_steps |-> [avalanche |-> "debt_recommendation", snowball |-> "debt_recommendation", consolidation |-> "debt_recommendation", not_sure |-> "debt_recommendation"]],
    debt_recommendation |->
      [id |-> "debt_recommendation", type |-> "recommendation",
       options |-> <<>>,
       next_steps |-> EmptyDict],
    home_timeframe |->
      [id |-> "home_timeframe", type |-> "question",
       options |-> <<"short", "medium", "long">>,
       next_steps |-> [short |-> "home_down_payment", medium |-> "home_down_payment", long |-> "home_down_payment"]],
    home_down_payment |->
      [id |-> "home_down_payment", type |-> "question",
       options |-> <<"ten", "twenty", "thirty_plus", "full">>,
       next_steps |-> [ten |-> "home_budget", twenty |-> "home_budget", thirty_plus |-> "home_budget", full |-> "home_budget"]],
    home_budget |->
      [id |-> "home_budget", type |-> "question",
       options |-> <<"small", "medium", "large", "very_large">>,
       next_steps |-> [small |-> "home_recommendation", medium |-> "home_recommendation", large |-> "home_recommendation", very_large |-> "home_recommendation"]],
    home_recommendation |->
      [id |-> "home_recommendation", type |-> "recommendation",
       options |-> <<>>,
       next_steps |-> EmptyDict],
    retirement_age |->
      [id |-> "retirement_age", type |-> "question",
       options |-> <<"early", "standard", "late">>,
       next_steps |-> [early |-> "retirement_current_age", standard |-> "retirement_current_age", late |-> "retirement_current_age"]],
    retirement_current_age |->
      [id |-> "retirement_current_age", type |-> "question",
       options |-> <<"early", "mid", "late">>,
       next_steps |-> [early |-> "retirement_vehicle", mid |-> "retirement_vehicle", late |-> "retirement_vehicle"]],
    retirement_vehicle |->
      [id |-> "retirement_vehicle", type |-> "question",
       options |-> <<"ike_ikze", "investment", "real_estate", "combined">>,
       next_steps |-> [ike_ikze |-> "retirement_recommendation", investment |-> "retirement_recommendation", real_estate |-> "retirement_recommendation", combined |-> "retirement_recommendation"]],
    retirement_recommendation |->
      [id |-> "retirement_recommendation", type |-> "recommendation",
       options |-> <<>>,
       next_steps |-> EmptyDict],
    education_timeframe |->
      [id |-> "education_timeframe", type |-> "question",
       options |-> <<"short", "medium", "long">>,
       next_steps |-> [short |-> "education_type", medium |-> "education_type", long |-> "education_type"]],
    education_type |->
      [id |-> "education_type", type |-> "question",
       options |-> <<"university", "courses", "certification", "child">>,
       next_steps |-> [university |-> "education_cost", courses |-> "education_cost", certification |-> "education_cost", child |-> "education_cost"]],
    education_cost |->
      [id |-> "education_cost", type |-> "question",
       options |-> <<"small", "medium", "large", "very_large">>,
       next_steps |-> [small |-> "education_recommendation", medium |-> "education_recommendation", large |-> "education_recommendation", very_large |-> "education_recommendation"]],
    education_recommendation |->
      [id |-> "education_recommendation", type |-> "recommendation",
       options |-> <<>>,
       next_steps |-> EmptyDict],
    vacation_timeframe |->
      [id |-> "vacation_timeframe", type |-> "question",
       options |-> <<"short", "medium", "long">>,
       next_steps |-> [short |-> "vacation_cost", medium |-> "vacation_cost", long |-> "vacation_cost"]],
    vacation_cost |->
      [id |-> "vacation_cost", type |-> "question",
       options |-> <<"small", "medium", "large", "very_large">>,
       next_steps |-> [small |-> "vacation_savings_method", medium |-> "vacation_savings_method", large |-> "vacation_savings_method", very_large |-> "vacation_savings_method"]],
    vacation_savings_method |->
      [id |-> "vacation_savings_method", type |-> "question",
       options |-> <<"savings", "dedicated", "combined", "credit">>,
       next_steps |-> [savings |-> "vacation_recommendation", dedicated |-> "vacation_recommendation", combined |-> "vacation_recommendation", credit |-> "vacation_recommendation"]],
    vacation_recommendation |->
      [id |-> "vacation_recommendation", type |-> "recommendation",
       options |-> <<>>,
       next_steps |-> EmptyDict],
    other_goal_amount |->
      [id |-> "other_goal_amount", type |-> "question",
       options |-> <<"small", "medium", "large", "very_large">>,
       next_steps |-> [small |-> "other_timeframe", medium |-> "other_timeframe", large |-> "other_timeframe", very_large |-> "other_timeframe"]],
    other_timeframe |->
      [id |-> "other_timeframe", type |-> "question",
       options |-> <<"short", "medium", "long", "very_long">>,
       next_steps |-> [short |-> "other_priority", medium |-> "other_priority", long |-> "other_priority", very_long |-> "other_priority"]],
    other_priority |->
      [id |-> "other_priority", type |-> "question",
       options |-> <<"low", "medium", "high">>,
       next_steps |-> [low |-> "other_recommendation", medium |-> "other_recommendation", high |-> "other_recommendation"]],
    other_recommendation |->
      [id |-> "other_recommendation", type |-> "recommendation",
       options |-> <<>>,
       next_steps |-> EmptyDict]
  ]

Nodes == DOMAIN tree

\* The option ids a node declares.
OptionIds(node_id) == Range(tree[node_id].options)

\* A variant that misses the transition of a node's last option.
TransitionKeys_LastMissing(node_id) ==
  LET options == tree[node_id].options
  IN  DOMAIN tree[node_id].next_steps
        \ (IF options = <<>> THEN {} ELSE {options[Len(options)]})

\* The keys of a node's transition map.
TransitionKeys(node_id) == DOMAIN tree[node_id].next_steps

\* ------------------------------------------- recommendation generators
\* A generator returns the ids of the recommendations it emits, in order.
\* dict.get(k) raises TypeError when k is unhashable.
Opt(cond, id) == IF cond THEN <<id>> ELSE <<>>

Raise == [raised |-> TRUE, value |-> <<>>]

Return(v) == [raised |-> FALSE, value |-> v]

_generate_emergency_fund_recommendations(timeframe, amount, savings_method) ==
  IF UNHASHABLE \in {amount, timeframe, savings_method} THEN Raise
  ELSE Return(<<"emergency_fund_base">>
         \o (IF savings_method = "automatic" THEN <<"emergency_fund_automatic">>
             ELSE IF savings_method = "percentage" THEN <<"emergency_fund_percentage">>
             ELSE <<"emergency_fund_surplus">>)
         \o <<"emergency_fund_location">>)

_generate_debt_reduction_recommendations(debt_type, total_amount, strategy) ==
  IF UNHASHABLE \in {debt_type, strategy} THEN Raise
  ELSE Return(<<"debt_reduction_base">>
         \o (IF strategy = "avalanche" THEN <<"debt_avalanche">>
             ELSE IF strategy = "snowball" THEN <<"debt_snowball">>
             ELSE IF strategy = "consolidation" THEN <<"debt_consolidation">>
             ELSE IF debt_type = "credit_card" \/ debt_type = "multiple"
                  THEN <<"debt_high_interest_first">>
             ELSE IF debt_type = "mortgage" THEN <<"debt_mortgage_optimization">>
             ELSE <<>>)
         \o <<"debt_budget_discipline">>)

_generate_home_purchase_recommendations(timeframe, down_payment, budget) ==
  IF UNHASHABLE \in {timeframe, down_payment, budget} THEN Raise
  ELSE Return(<<"home_purchase_base">>
         \o (IF timeframe = "short" THEN <<"home_purchase_short_term">>
             ELSE IF timeframe = "medium" THEN <<"home_purchase_medium_term">>
             ELSE <<"home_purchase_long_term">>)
         \o (IF down_payment = "ten" THEN <<"home_purchase_min_down_payment">>
             ELSE IF down_payment = "full" THEN <<"home_purchase_cash">>
             ELSE <<>>)
         \o <<"home_purchase_preparation">>)

_generate_retirement_recommendations(retirement_age, current_age, vehicle) ==
  IF UNHASHABLE \in {retirement_age, current_age, vehicle} THEN Raise
  ELSE Return(<<"retirement_base">>
         \o (IF current_age = "early" THEN <<"retirement_early_career">>
             ELSE IF current_age = "mid" THEN <<"retirement_mid_career">>
             ELSE <<"retirement_late_career">>)
         \o (IF vehicle = "ike_ikze" THEN <<"retirement_ike_ikze">>
             ELSE IF vehicle = "real_estate" THEN <<"retirement_real_estate">>
             ELSE IF vehicle = "investment" THEN <<"retirement_own_investments">>
             ELSE <<>>)
         \o <<"retirement_diversification">>)

_generate_education_recommendations(timeframe, education_type, cost) ==
  IF UNHASHABLE \in {timeframe, education_type, cost} THEN Raise
  ELSE Return(<<"education_base">>
         \o (IF education_type = "university" THEN <<"education_university">>
             ELSE IF education_type = "child" THEN <<"education_child">>
             ELSE <<>>)
         \o Opt(cost = "large" \/ cost = "very_large", "education_high_cost")
         \o (IF timeframe = "short" THEN <<"education_short_term">>
             ELSE IF timeframe = "long" THEN <<"education_long_term">>
             ELSE <<>>))

_generate_vacation_recommendations(timeframe, cost, savings_method) ==
  IF UNHASHABLE \in {timeframe, cost, savings_method} THEN Raise
  ELSE Return(<<"vacation_base">>
         \o Opt(timeframe = "short", "vacation_short_term")
         \o Opt(cost = "large" \/ cost = "very_large", "vacation_expensive")
         \o (IF savings_method = "dedicated" THEN <<"vacation_dedicated_account">>
             ELSE IF savings_method = "credit" THEN <<"vacation_credit">>
             ELSE <<>>)
         \o <<"vacation_budget_management">>)

_generate_other_goal_recommendations(amount, timeframe, priority) ==
  IF UNHASHABLE \in {amount, timeframe, priority} THEN Raise
  ELSE Return(<<"other_goal_base">>
         \o (IF amount \in {"large", "very_large"} /\ timeframe \in {"short", "medium"}
             THEN <<"other_goal_large_short">>
             ELSE IF amount \in {"small", "medium"} /\ timeframe \in {"long", "very_long"}
             THEN <<"other_goal_small_long">>
             ELSE <<>>)
         \o (IF priority = "high" THEN <<"other_goal_high_priority">>
             ELSE IF priority = "low" THEN <<"other_goal_low_priority">>
             ELSE <<>>)
         \o <<"other_goal_tracking">>)

\* The generator selected by the answer recorded for the root node.
GoalGenerator(financial_goal, answers) ==
  IF financial_goal = "emergency_fund" THEN
    _generate_emergency_fund_recommendations(
      DictGet(answers, "ef_timeframe", "medium"),
      DictGet(answers, "ef_amount", "six"),
      DictGet(answers, "ef_savings_method", "automatic"))
  ELSE IF financial_goal = "debt_reduction" THEN
    _generate_debt_reduction_recommendations(
      DictGet(answers, "debt_type", "credit_card"),
      DictGet(answers, "debt_total_amount", "medium"),
      DictGet(answers, "debt_strategy", "avalanche"))
  ELSE IF financial_goal = "home_purchase" THEN
    _generate_home_purchase_recommendations(
      DictGet(answers, "home_timeframe", "medium"),
      DictGet(answers, "home_down_payment", "twenty"),
      DictGet(answers, "home_budget", "medium"))
  ELSE IF financial_goal = "retirement" THEN
    _generate_retirement_recommendations(
      DictGet(answers, "retirement_age", "standard"),
      DictGet(answers, "retirement_current_age", "mid"),
      DictGet(answers, "retirement_vehicle", "combined"))
  ELSE IF financial_goal = "education" THEN
    _generate_education_recommendations(
      DictGet(answers, "education_timeframe", "medium"),
      DictGet(answers, "education_type", "university"),
      DictGet(answers, "education_cost", "medium"))
  ELSE IF financial_goal = "vacation" THEN
    _generate_vacation_recommendations(
      DictGet(answers, "vacation_timeframe", "medium"),
      DictGet(answers, "vacation_cost", "medium"),
      DictGet(answers, "vacation_savings_method", "dedicated"))
  ELSE IF financial_goal = "other" THEN
    _generate_other_goal_recommendations(
      DictGet(answers, "other_goal_amount", "medium"),
      DictGet(answers, "other_timeframe", "medium"),
      DictGet(answers, "other_priority", "medium"))
  ELSE Return(<<>>)

_generate_recommendations(ctx) ==
  LET journey == IF "journey" \in ctx.keys THEN ctx.journey ELSE <<>>
      answers == IF "answers" \in ctx.keys THEN ctx.answers ELSE EmptyDict
  IN  IF journey = <<>> \/ DOMAIN answers = {} THEN <<>>
      ELSE IF "root" \notin DOMAIN answers THEN <<>>
      ELSE LET r == GoalGenerator(answers["root"], answers)
           IN  IF r.raised THEN <<"error_fallback">> ELSE r.value

\* ----------------------------------------- FinancialDecisionTree.process_step
\* A session context: the keys present and the values of the three keys the
\* engine reads or writes.
EmptyContext ==
  [keys |-> {}, journey |-> <<>>, answers |-> EmptyDict, financial_goal |-> NONE]

\* context.setdefault-style creation of "journey" and "answers".
WithDefaults(ctx) ==
  [ctx EXCEPT !.keys = @ \cup {"journey", "answers"},
              !.journey = IF "journey" \in ctx.keys THEN @ ELSE <<>>,
              !.answers = IF "answers" \in ctx.keys THEN @ ELSE EmptyDict]

\* A variant that files the answer of a request without node id under root.
RecordAnswer_DefaultRoot(ctx, current_node_id, answer) ==
  IF Truthy(answer)
  THEN [ctx EXCEPT !.answers =
          DictSet(@, IF Truthy(current_node_id) THEN current_node_id ELSE "root",
                  answer)]
  ELSE ctx

\* The answer is recorded under the node id before any lookup.
RecordAnswer(ctx, current_node_id, answer) ==
  IF Truthy(current_node_id) /\ Truthy(answer)
  THEN [ctx EXCEPT !.answers = DictSet(@, current_node_id, answer)]
  ELSE ctx

\* Mutant of NextNodeId: the last question of a path leads back to the root,
\* which makes the graph cyclic.
NextNodeId_BackToRoot(current_node_id, answer) ==
  LET current_node == tree[current_node_id]
  IN  IF Truthy(answer) /\ current_node.type = "question"
         /\ answer \in DOMAIN current_node.next_steps
      THEN (IF tree[current_node.next_steps[answer]].type = "recommendation"
            THEN "root" ELSE current_node.next_steps[answer])
      ELSE current_node_id

\* Mutant of NextNodeId: a rejected answer sends the session back to the root.
NextNodeId_RejectToRoot(current_node_id, answer) ==
  LET current_node == tree[current_node_id]
  IN  IF Truthy(answer) /\ current_node.type = "question"
      THEN (IF answer \in DOMAIN current_node.next_steps
            THEN current_node.next_steps[answer] ELSE "root")
      ELSE current_node_id

\* The node the call ends at, for a node id that is in the tree.
NextNodeId(current_node_id, answer) ==
  LET current_node == tree[current_node_id]
  IN  IF Truthy(answer) /\ current_node.type = "question"
         /\ answer \in DOMAIN current_node.next_steps
      THEN current_node.next_steps[answer]
      ELSE current_node_id

\* Mutant of JourneyAfterStep: a rejected answer drops the last entry.
JourneyAfterStep_Backtrack(journey, current_node_id, answer) ==
  LET current_node == tree[current_node_id]
  IN  IF Truthy(answer) /\ current_node.type = "question"
      THEN (IF answer \in DOMAIN current_node.next_steps
            THEN Append(journey, current_node.next_steps[answer])
            ELSE SubSeq(journey, 1, Len(journey) - 1))
      ELSE journey

\* The journey after the call, for a node id that is in the tree.
JourneyAfterStep(journey, current_node_id, answer) ==
  LET current_node == tree[current_node_id]
  IN  IF Truthy(answer) /\ current_node.type = "question"
         /\ answer \in DOMAIN current_node.next_steps
      THEN Append(journey, current_node.next_steps[answer])
      ELSE journey

\* Expected path length of a goal.
MaxSteps(financial_goal) ==
  IF financial_goal = "emergency_fund" THEN 4
  ELSE IF financial_goal = "debt_reduction" THEN 4
  ELSE IF financial_goal = "home_purchase" THEN 4
  ELSE IF financial_goal = "retirement" THEN 4
  ELSE IF financial_goal = "education" THEN 4
  ELSE IF financial_goal = "vacation" THEN 4
  ELSE IF financial_goal = "other" THEN 4
  ELSE 4

\* Mutant of Progress: the ratio without the cap at 1.0.
Progress_NoCap(current_step, max_steps) == <<current_step, max_steps>>

\* min(1.0, current_step / max_steps) as an exact fraction <<num, den>>;
\* 1.0 is <<1, 1>>.
Progress(current_step, max_steps) ==
  IF current_step >= max_steps THEN <<1, 1>> ELSE <<current_step, max_steps>>

FracLeq(p, q) == p[1] * q[2] <= q[1] * p[2]

\* context["financial_goal"] = context["answers"]["root"] when present.
StoreGoal(ctx) ==
  IF "root" \in DOMAIN ctx.answers
  THEN [ctx EXCEPT !.keys = @ \cup {"financial_goal"},
                   !.financial_goal = ctx.answers["root"]]
  ELSE ctx

NoResponse ==
  [called |-> FALSE, raised |-> FALSE, node |-> NONE, progress |-> <<0, 1>>,
   recommendations |-> <<>>, messages |-> <<>>]

\* The whole call: the context it leaves behind and what it returns.  A node
\* id that is not a key of the tree raises KeyError after the answer has been
\* recorded.
process_step(current_node_id, answer, ctx0) ==
  LET c1 == RecordAnswer(WithDefaults(ctx0), current_node_id, answer)
  IN  IF Truthy(current_node_id) /\ current_node_id \notin Nodes
      THEN [context |-> c1,
            response |-> [NoResponse EXCEPT !.called = TRUE, !.raised = TRUE]]
      ELSE
        LET node == IF ~Truthy(current_node_id) THEN "root"
                    ELSE NextNodeId(current_node_id, answer)
            c2 == [c1 EXCEPT !.journey =
                     IF ~Truthy(current_node_id) THEN Append(@, "root")
                     ELSE JourneyAfterStep(@, current_node_id, answer)]
            c3 == StoreGoal(c2)
            max_steps == IF "root" \in DOMAIN c3.answers
                         THEN MaxSteps(c3.answers["root"]) ELSE 4
            isRec == tree[node].type = "recommendation"
        IN  [context |-> c3,
             response |->
               [called |-> TRUE, raised |-> FALSE, node |-> node,
                progress |-> Progress(Len(c3.journey), max_steps),
                recommendations |->
                  IF isRec THEN _generate_recommendations(c3) ELSE <<>>,
                messages |-> IF isRec THEN <<"thanks">> ELSE <<>>]]

\* ------------------------------------------ TreeModel.process_decision_step
\* A decision-path entry: a mapping with optional "node_id" and "selection"
\* keys (kind "dict"), or a JSON value that is not a mapping (kind "other").
Decision(node_id, selection) ==
  [kind |-> "dict", node_id |-> node_id, selection |-> selection]

NotADict == [kind |-> "other", node_id |-> ABSENT, selection |-> ABSENT]

\* decision.get(key) / decision.get(key, default) of an entry field.
EntryGet(value, default) == IF value = ABSENT THEN default ELSE value

\* Mutant of ReplayNode: the node is looked up with tree[...] and the
\* transition with next_steps[...], so a failed lookup throws.
ReplayNode_LookupRaises(step, decision_path) ==
  IF step = 0 THEN [raised |-> FALSE, node |-> "root"]
  ELSE IF Len(decision_path) > 0 THEN
    LET last_decision == decision_path[Len(decision_path)]
        last_step_node_id == EntryGet(last_decision.node_id, "root")
        last_selection == EntryGet(last_decision.selection, NONE)
    IN  IF last_decision.kind # "dict" THEN [raised |-> TRUE, node |-> NONE]
        ELSE IF last_step_node_id \notin Nodes THEN [raised |-> TRUE, node |-> NONE]
        ELSE IF last_selection = UNHASHABLE THEN [raised |-> TRUE, node |-> NONE]
        ELSE IF last_selection \in DOMAIN tree[last_step_node_id].next_steps
             THEN [raised |-> FALSE,
                   node |-> tree[last_step_node_id].next_steps[last_selection]]
        ELSE [raised |-> TRUE, node |-> NONE]
  ELSE [raised |-> FALSE, node |-> "root"]

\* The node the replay resumes at: the transition of the last pair, else the
\* root.  raised: the lookup itself throws.
ReplayNode(step, decision_path) ==
  IF step = 0 THEN [raised |-> FALSE, node |-> "root"]
  ELSE IF Len(decision_path) > 0 THEN
    LET last_decision == decision_path[Len(decision_path)]
        last_step_node_id == EntryGet(last_decision.node_id, "root")
        last_selection == EntryGet(last_decision.selection, NONE)
    IN  IF last_decision.kind # "dict" THEN [raised |-> TRUE, node |-> NONE]
        ELSE IF last_step_node_id \notin Nodes
             THEN [raised |-> FALSE, node |-> "root"]
        ELSE IF last_selection = UNHASHABLE THEN [raised |-> TRUE, node |-> NONE]
        ELSE IF last_selection \in DOMAIN tree[last_step_node_id].next_steps
             THEN [raised |-> FALSE,
                   node |-> tree[last_step_node_id].next_steps[last_selection]]
        ELSE [raised |-> FALSE, node |-> "root"]
  ELSE [raised |-> FALSE, node |-> "root"]

\* The context rebuilt from the path: every pair with both fields set.
RECURSIVE ReplayContext(_)
ReplayContext(decision_path) ==
  IF decision_path = <<>>
  THEN [raised |-> FALSE,
        context |-> [EmptyContext EXCEPT !.keys = {"journey", "answers"}]]
  ELSE
    LET n == Len(decision_path)
        before == ReplayContext(SubSeq(decision_path, 1, n - 1))
        decision == decision_path[n]
        node_id == EntryGet(decision.node_id, NONE)
        selection == EntryGet(decision.selection, NONE)
    IN  IF before.raised \/ decision.kind # "dict"
        THEN [raised |-> TRUE, context |-> EmptyContext]
        ELSE IF Truthy(node_id) /\ Truthy(selection)
        THEN [raised |-> FALSE,
              context |-> [before.context EXCEPT
                             !.journey = Append(@, node_id),
                             !.answers = DictSet(@, node_id, selection)]]
        ELSE before

FallbackOptions == <<"fallback">>

process_decision_step(step, decision_path) ==
  LET at == ReplayNode(step, decision_path)
      built == ReplayContext(decision_path)
  IN  IF at.raised \/ built.raised THEN FallbackOptions
      ELSE LET r == process_step(at.node, NONE, built.context).response
           IN  IF r.raised THEN FallbackOptions ELSE tree[r.node].options

\* ------------------------------------------------------------ the session
\* Node ids a caller starts a tree request at: the API's default and the
\* router's starting nodes.  Two of the router's ids are not in the tree.
StartNodes == {"root", "debt_type"}

UnknownNodes == {"investment_risk", "tax_situation"}

\* Contexts a first request can carry: none, or answers kept by the client.
InitContexts ==
  { EmptyContext,
    [EmptyContext EXCEPT !.keys = {"answers"},
                         !.answers = [root |-> "emergency_fund",
                                      ef_amount |-> UNHASHABLE]] }

NoRequest == [current_node_id |-> NONE, answer |-> NONE]

\* No form exists, no form operation was called, nothing is stored.
NoForm == [exists |-> FALSE]

NoCall == [op |-> NONE, answer |-> NONE,
           reply |-> [kind |-> NONE, field |-> NONE, validation |-> NONE]]

\* No routing operation was called.  recommended_advisor and nested are the
\* context's "recommended_advisor" and its behavioral_profile's; debt is the
\* profile's financial_data.debt; did is the set of stages the turn ran and
\* db_profile the recommended_advisor of the profile it loaded.
NoTurn ==
  [op |-> NONE, message |-> NONE, recommended_advisor |-> ABSENT,
   nested |-> ABSENT, debt |-> ABSENT, ready |-> FALSE, advisor_type |-> ABSENT,
   start_node |-> NONE, did |-> {}, db_profile |-> ABSENT, raised |-> FALSE]

\* Nobody has used the router or the tree.
NoUsers ==
  [user_forms |-> EmptyDict, stored |-> EmptyDict, client |-> EmptyDict,
   alone |-> EmptyDict]

NoFormSession ==
  /\ users = NoUsers
  /\ form = NoForm
  /\ call = NoCall
  /\ profile_stored = FALSE
  /\ turn = NoTurn

NoReplay == [called |-> FALSE, step |-> 0, decision_path |-> <<>>, options |-> <<>>]

\* Answers a request to a node may carry: none, each declared option, and a
\* value that is not an option.
AnswersFor(node_id) ==
  {NONE, INVALID}
    \cup (IF node_id \in Nodes THEN TransitionKeys(node_id) ELSE {})

Init ==
  /\ context \in InitContexts
  /\ cur = NONE
  /\ request = NoRequest
  /\ response = NoResponse
  /\ path = <<>>
  /\ replay = NoReplay
  /\ NoFormSession

\* One process_step call on the session context.  The caller keeps the
\* returned node as its current node and records every answered request.
Call(current_node_id, answer) ==
  LET r == process_step(current_node_id, answer, context)
      answered == Truthy(current_node_id) /\ Truthy(answer)
  IN  /\ answered => Len(path) < MaxPath
      /\ context' = r.context
      /\ response' = r.response
      /\ request' = [current_node_id |-> current_node_id, answer |-> answer]
      /\ cur' = IF r.response.raised THEN cur ELSE r.response.node
      /\ path' = IF answered THEN Append(path, Decision(current_node_id, answer))
                 ELSE path
      /\ replay' = NoReplay
      /\ UNCHANGED <<formVars, userVars>>

\* Tree entry: the first request of a session, without a node id.
Enter ==
  /\ cur = NONE
  /\ \E current_node_id \in {NONE, ""} :
       \E answer \in {NONE, "emergency_fund"} : Call(current_node_id, answer)

\* The first request of a session names a starting node.
Start ==
  /\ cur = NONE
  /\ \E current_node_id \in StartNodes : Call(current_node_id, NONE)

\* The first request of a session names a node id the tree does not have.
StartUnknown ==
  /\ cur = NONE
  /\ \E current_node_id \in UnknownNodes :
       \E answer \in {NONE, INVALID} : Call(current_node_id, answer)

\* A later request: the caller sends back the node it was given.
Step ==
  /\ cur \in Nodes
  /\ \E answer \in AnswersFor(cur) : Call(cur, answer)

\* Replay of the recorded pairs of the live session.
ReplayRecorded ==
  /\ replay' = [called |-> TRUE, step |-> Len(path), decision_path |-> path,
                options |-> process_decision_step(Len(path), path)]
  /\ UNCHANGED <<context, cur, request, response, path>>
  /\ UNCHANGED <<formVars, userVars>>

Next == Enter \/ Start \/ StartUnknown \/ Step \/ ReplayRecorded

Spec == Init /\ [][Next]_vars

\* ------------------------------------------- replay of caller-supplied paths
ReplayEntries ==
  { Decision("root", "emergency_fund"),
    Decision("ef_timeframe", "short"),
    Decision("ef_savings_method", "surplus"),
    Decision("root", INVALID),
    Decision("ef_recommendation", "short"),
    Decision("no_such_node", "short"),
    Decision(ABSENT, "retirement"),
    Decision("root", ABSENT),
    Decision("root", UNHASHABLE),
    Decision(NONE, NONE),
    NotADict }

RECURSIVE SeqsUpTo(_, _)
SeqsUpTo(S, n) ==
  IF n = 0 THEN {<<>>}
  ELSE LET shorter == SeqsUpTo(S, n - 1)
       IN  shorter \cup {Append(q, e) : q \in shorter, e \in S}

\* A caller hands process_decision_step a step index and a path of its own.
InitReplay ==
  /\ context = EmptyContext
  /\ cur = NONE
  /\ request = NoRequest
  /\ response = NoResponse
  /\ path = <<>>
  /\ NoFormSession
  /\ \E decision_path \in SeqsUpTo(ReplayEntries, MaxReplayLen) :
       \E step \in 0..MaxReplayLen :
         replay = [called |-> FALSE, step |-> step,
                   decision_path |-> decision_path, options |-> <<>>]

ReplayPath ==
  /\ ~replay.called
  /\ replay' = [replay EXCEPT
                  !.called = TRUE,
                  !.options = process_decision_step(replay.step, replay.decision_path)]
  /\ UNCHANGED <<context, cur, request, response, path>>
  /\ UNCHANGED <<formVars, userVars>>

NextReplay == ReplayPath

SpecReplay == InitReplay /\ [][NextReplay]_vars

\* ---------------------------------------------------------- UserProfileForm
\* The fixed order of the questions: financial fields, then behavioral ones.
field_order ==
  <<"age", "country", "region", "income", "expenses", "savings", "debt",
    "investments", "investment_horizon", "risk_tolerance", "decision_style",
    "financial_discipline", "time_preference", "financial_goal">>

\* A field's declaration: "keys" are the optional keys the declaration has.
TextField(required) ==
  [required |-> required, keys |-> {}, options |-> <<>>, mapping |-> EmptyDict]

NumberField(required) ==
  [required |-> required, keys |-> {"type"}, options |-> <<>>,
   mapping |-> EmptyDict]

ChoiceField(options, mapping) ==
  [required |-> TRUE, keys |-> {"options", "mapping"}, options |-> options,
   mapping |-> mapping]

all_fields ==
  [age |-> NumberField(TRUE),
   country |-> TextField(TRUE),
   region |-> TextField(FALSE),
   income |-> NumberField(TRUE),
   expenses |-> NumberField(TRUE),
   savings |-> NumberField(TRUE),
   debt |-> NumberField(FALSE),
   investments |-> TextField(FALSE),
   investment_horizon |-> NumberField(FALSE),
   risk_tolerance |->
     ChoiceField(<<"a", "b", "c">>,
                 [a |-> "conservative", b |-> "moderate", c |-> "aggressive"]),
   decision_style |->
     ChoiceField(<<"a", "b", "c", "d">>,
                 [a |-> "analytical", b |-> "intuitive", c |-> "consultative",
                  d |-> "directive"]),
   financial_discipline |->
     ChoiceField(<<"a", "b", "c">>,
                 [a |-> "strict", b |-> "flexible", c |-> "impulsive"]),
   time_preference |->
     ChoiceField(<<"a", "b", "c">>,
                 [a |-> "short_term", b |-> "medium_term", c |-> "long_term"]),
   financial_goal |-> TextField(TRUE)]

FieldNames == Range(field_order)

RequiredFields == {n \in FieldNames : all_fields[n].required}

\* A new UserProfileForm: every value None, the cursor on the first field.
FreshForm ==
  [exists |-> TRUE, values |-> [n \in FieldNames |-> NONE],
   current_field_index |-> 0, is_complete |-> FALSE]

\* str.lower() on the messages of the model; the value None is lower-cased
\* only where the source first applies str() to it.
Lower(answer) ==
  IF answer = "B" THEN "b"
  ELSE IF answer = "Polska" THEN "polska"
  ELSE IF answer = "1 500,50 PLN" THEN "1 500,50 pln"
  ELSE IF answer = "PIT i umowa" THEN "pit i umowa"
  ELSE IF answer = "Pomin formularz" THEN "pomin formularz"
  ELSE IF answer = "Pokaz opcje podatki" THEN "pokaz opcje podatki"
  ELSE IF answer = NONE THEN "none"
  ELSE answer

\* Python's "phrase in text" for the lower-cased texts of the model: the
\* keywords, triggers and commands of the source that occur in the text as
\* substrings ("kapital" holds "pit").  The phrases of the source that are
\* written with Polish letters occur in no text of the model and are left
\* out of the lists below.
PhrasesIn(text) ==
  CASE text = "pit i umowa" -> {"pit", "umowa"}
    [] text = "umowa i akcje" -> {"umowa", "akcje"}
    [] text = "akcje" -> {"akcje"}
    [] text = "kapital" -> {"pit"}
    [] text = "pomin formularz" -> {"pomin formularz"}
    [] text = "wypelnij formularz" -> {"wypelnij formularz"}
    [] text = "pokaz opcje akcje" -> {"akcje", "pokaz opcje"}
    [] text = "co powinienem" -> {"co powinienem"}
    [] text = "podatki" -> {"podatki"}
    [] text = "podatek i akcje" -> {"podatek", "akcje"}
    [] text = "akcje i kredyt" -> {"akcje", "kredyt"}
    [] text = "kredyt" -> {"kredyt"}
    [] text = "pokaz opcje podatki" -> {"podatki", "pokaz opcje"}
    [] text = "pokaz opcje debt" -> {"pokaz opcje", "debt"}
    [] text = "pokaz opcje" -> {"pokaz opcje"}
    [] text = "pokaz opcje: podatki i akcje" ->
         {"podatki", "akcje", "pokaz opcje"}
    [] text = "pokaz opcje: umowa i akcje" -> {"umowa", "akcje", "pokaz opcje"}
    [] text = "co proponujesz, co powinienem" ->
         {"co proponujesz", "co powinienem"}
    [] OTHER -> {}

\* any(keyword in text for keyword in keywords)
AnyIn(keywords, text) == PhrasesIn(text) \cap keywords # {}

\* The currency marks and spaces are removed, a comma becomes a point.
Clean(answer) ==
  IF answer = "1 500,50 PLN" THEN "1500.50"
  ELSE IF answer = "pomin formularz" THEN "pominformularz"
  ELSE IF answer = "Pomin formularz" THEN "Pominformularz"
  ELSE IF answer = "wypelnij formularz" THEN "wypelnijformularz"
  ELSE answer

ValueError == "<ValueError>"

\* float() of a cleaned answer; the float is written as Python prints it.
Float(clean_answer) ==
  IF clean_answer = "30" THEN "30.0"
  ELSE IF clean_answer = "1500.50" THEN "1500.5"
  ELSE IF clean_answer = "nan" THEN "nan"
  ELSE ValueError

\* The replies of the form.
Question(field_name) ==
  [kind |-> "question", field |-> field_name, validation |-> NONE]

Invalid(field_name, validation) ==
  [kind |-> "invalid", field |-> field_name, validation |-> validation]

Plain(kind) == [kind |-> kind, field |-> NONE, validation |-> NONE]

\* A variant that looks only at the required fields already asked, those
\* before the cursor.
all_required_fields_filled_Asked(f) ==
  \A i \in 1..f.current_field_index :
     all_fields[field_order[i]].required => f.values[field_order[i]] # NONE

\* for every required field: value is not None
all_required_fields_filled(f) ==
  \A n \in RequiredFields : f.values[n] # NONE

\* A variant that takes the form to be over on its last field.
FormIsOver_OnLastField(f) == f.current_field_index + 1 >= Len(field_order)

\* current_field_index >= len(field_order)
FormIsOver(f) == f.current_field_index >= Len(field_order)

\* The field under the cursor (Python indexes from 0).
CurrentField(f) == field_order[f.current_field_index + 1]

Complete(f) ==
  [form |-> [f EXCEPT !.is_complete = TRUE], reply |-> Plain("summary")]

RECURSIVE get_next_question(_)
get_next_question(f) ==
  IF f.is_complete THEN [form |-> f, reply |-> Plain("form_filled")]
  ELSE IF FormIsOver(f) THEN Complete(f)
  ELSE IF ~all_fields[CurrentField(f)].required /\ all_required_fields_filled(f)
  THEN LET f1 == [f EXCEPT !.current_field_index = @ + 1]
       IN  IF FormIsOver(f1) THEN Complete(f1) ELSE get_next_question(f1)
  ELSE [form |-> f, reply |-> Question(CurrentField(f))]

\* The validation of an answer to a field: NONE for a valid answer, else
\* which of the two validation messages is returned.
Validation(field_data, answer) ==
  IF "options" \in field_data.keys
  THEN IF Lower(answer) \notin Range(field_data.options) THEN "options" ELSE NONE
  ELSE IF "type" \in field_data.keys
  THEN IF Float(Clean(answer)) = ValueError THEN "number" ELSE NONE
  ELSE NONE

\* A variant that stores the answer as it was typed.
StoredValue_Raw(field_data, answer) ==
  IF "options" \notin field_data.keys /\ "type" \in field_data.keys
  THEN Float(Clean(answer))
  ELSE answer

\* The value stored for a valid answer: the mapped label, the float, or the
\* answer itself.
StoredValue(field_data, answer) ==
  IF "options" \notin field_data.keys /\ "type" \in field_data.keys
  THEN Float(Clean(answer))
  ELSE IF "mapping" \in field_data.keys /\ Lower(answer) \in DOMAIN field_data.mapping
  THEN field_data.mapping[Lower(answer)]
  ELSE answer

\* A variant that moves on to the next field when it rejects an answer.
Rejected_MovesOn(f, field_name, validation) ==
  [form |-> [f EXCEPT !.current_field_index = @ + 1],
   reply |-> Invalid(field_name, validation)]

\* An invalid answer: the validation message and the question again.
Rejected(f, field_name, validation) ==
  [form |-> f, reply |-> Invalid(field_name, validation)]

\* A variant that stores the value and leaves the cursor on the field.
StoreAnswer_KeepsCursor(f, field_name, value) ==
  [f EXCEPT !.values[field_name] = value]

\* The value is stored in the current field and the cursor moves by one.
StoreAnswer(f, field_name, value) ==
  [f EXCEPT !.values[field_name] = value, !.current_field_index = @ + 1]

\* A variant without the check that the form is already complete.
process_answer_NoCompleteCheck(f, answer) ==
  IF FormIsOver(f) THEN Complete(f)
  ELSE LET field_name == CurrentField(f)
           field_data == all_fields[field_name]
           validation == Validation(field_data, answer)
       IN  IF validation # NONE THEN Rejected(f, field_name, validation)
           ELSE get_next_question(
                  StoreAnswer(f, field_name, StoredValue(field_data, answer)))

process_answer(f, answer) ==
  IF f.is_complete THEN [form |-> f, reply |-> Plain("already_filled")]
  ELSE IF FormIsOver(f) THEN Complete(f)
  ELSE LET field_name == CurrentField(f)
           field_data == all_fields[field_name]
           validation == Validation(field_data, answer)
       IN  IF validation # NONE THEN Rejected(f, field_name, validation)
           ELSE get_next_question(
                  StoreAnswer(f, field_name, StoredValue(field_data, answer)))

\* The advisor recommended for the form's answers: by the goal's keywords,
\* then by the behavioral answers ("conservative" with "strict" gives the
\* default as well).
recommend_advisor(f) ==
  IF ~all_required_fields_filled(f) THEN "financial"
  ELSE LET goal == Lower(f.values["financial_goal"])
       IN  IF AnyIn({"podatek", "podatki", "pit", "vat", "cit"}, goal)
           THEN "tax"
           ELSE IF AnyIn({"prawo", "umowa", "przepisy", "regulacje"}, goal)
           THEN "legal"
           ELSE IF AnyIn({"inwestycja", "inwestowanie", "akcje", "obligacje"},
                         goal)
           THEN "investment"
           ELSE IF /\ f.values["risk_tolerance"] = "aggressive"
                   /\ f.values["time_preference"] = "long_term"
           THEN "investment"
           ELSE IF /\ f.values["risk_tolerance"] = "conservative"
                   /\ f.values["financial_discipline"] = "strict"
           THEN "financial"
           ELSE "financial"

\* ------------------------------------------------ one form, called directly
\* Answers a caller gives to a field of each kind: accepted and rejected ones.
NumberAnswers == {"1 500,50 PLN", "nan", "abc"}

ChoiceAnswers == {"a", "B", "d", "moderate"}

TextAnswers == {"Polska"}

FormAnswers(f) ==
  IF f.is_complete \/ FormIsOver(f)
  THEN NumberAnswers \cup ChoiceAnswers \cup TextAnswers
  ELSE LET field_data == all_fields[CurrentField(f)]
       IN  IF "options" \in field_data.keys THEN ChoiceAnswers
           ELSE IF "type" \in field_data.keys THEN NumberAnswers
           ELSE TextAnswers

InitForm ==
  /\ users = NoUsers
  /\ form = FreshForm
  /\ call = NoCall
  /\ profile_stored = FALSE
  /\ turn = NoTurn
  /\ context = EmptyContext
  /\ cur = NONE
  /\ request = NoRequest
  /\ response = NoResponse
  /\ path = <<>>
  /\ replay = NoReplay

\* form.process_answer(answer)
FormAnswer(answer) ==
  LET r == process_answer(form, answer)
  IN  /\ form' = r.form
      /\ call' = [op |-> "process_answer", answer |-> answer, reply |-> r.reply]
      /\ UNCHANGED <<profile_stored, turn>>
      /\ UNCHANGED <<treeVars, userVars>>

Answer == \E answer \in FormAnswers(form) : FormAnswer(answer)

\* form.get_next_question()
NextQuestion ==
  LET r == get_next_question(form)
  IN  /\ form' = r.form
      /\ call' = [op |-> "get_next_question", answer |-> NONE, reply |-> r.reply]
      /\ UNCHANGED <<profile_stored, turn>>
      /\ UNCHANGED <<treeVars, userVars>>

NextForm == Answer \/ NextQuestion

SpecForm == InitForm /\ [][NextForm]_vars

\* ------------------------------- one form object, shared with the router
\* The router holds the form object and writes its is_complete attribute;
\* the form's methods are called on whatever the router has made of it.
SharedAnswers == {"30", "a", "abc"}

SharedAnswer == \E answer \in SharedAnswers : FormAnswer(answer)

\* user_forms[user_id].is_complete = True
MarkComplete ==
  /\ form' = [form EXCEPT !.is_complete = TRUE]
  /\ call' = [op |-> "mark_complete", answer |-> NONE, reply |-> NoCall.reply]
  /\ UNCHANGED <<profile_stored, turn>>
  /\ UNCHANGED <<treeVars, userVars>>

\* user_forms[user_id] = UserProfileForm()
Replace ==
  /\ form' = FreshForm
  /\ call' = [op |-> "replace", answer |-> NONE, reply |-> NoCall.reply]
  /\ UNCHANGED <<profile_stored, turn>>
  /\ UNCHANGED <<treeVars, userVars>>

NextShared == SharedAnswer \/ NextQuestion \/ MarkComplete \/ Replace

SpecShared == InitForm /\ [][NextShared]_vars

\* ------------------------------------- the router's functions of a message
\* The keyword lists of _determine_advisor_from_message, by advisor type.
keywords ==
  [tax |-> {"podatek", "podatki", "pit", "vat", "cit", "zeznanie", "zwrot",
            "odliczenie"},
   legal |-> {"prawo", "prawne", "umowa", "przepisy", "regulacje", "ustawa",
              "kodeks", "kontrakt"},
   investment |-> {"inwestycja", "inwestowanie", "akcje", "obligacje",
                   "fundusz", "portfel", "etf", "dywidenda"},
   financial |-> {"wydatki", "dochody", "kredyt", "planowanie", "emerytura",
                  "ubezpieczenie"}]

\* A variant that tries the investment keywords first.
determine_advisor_from_message_InvestmentFirst(message) ==
  LET message_lower == Lower(message)
  IN  IF AnyIn(keywords["investment"], message_lower) THEN "investment"
      ELSE IF AnyIn(keywords["tax"], message_lower) THEN "tax"
      ELSE IF AnyIn(keywords["legal"], message_lower) THEN "legal"
      ELSE IF AnyIn(keywords["financial"], message_lower) THEN "financial"
      ELSE "financial"

determine_advisor_from_message(message) ==
  LET message_lower == Lower(message)
  IN  IF AnyIn(keywords["tax"], message_lower) THEN "tax"
      ELSE IF AnyIn(keywords["legal"], message_lower) THEN "legal"
      ELSE IF AnyIn(keywords["investment"], message_lower) THEN "investment"
      ELSE IF AnyIn(keywords["financial"], message_lower) THEN "financial"
      ELSE "financial"

tree_triggers == {"drzewo decyzyjne", "pokaz opcje", "co proponujesz"}

guidance_indicators ==
  {"co powinienem", "co powinnam", "najlepsze opcje", "powiedz mi co"}

\* A variant that takes only the explicit triggers for readiness.
check_decision_tree_readiness_ExplicitOnly(message, recommended_advisor) ==
  IF AnyIn(tree_triggers, Lower(message))
  THEN [ready_for_tree |-> TRUE,
        advisor_type |-> IF recommended_advisor # ABSENT
                         THEN recommended_advisor
                         ELSE determine_advisor_from_message(message),
        message |-> "tree_prompt"]
  ELSE [ready_for_tree |-> FALSE, advisor_type |-> ABSENT, message |-> ABSENT]

\* check_decision_tree_readiness(message, user_id, context), the context
\* given by its "recommended_advisor" entry (ABSENT: no such key).  A key
\* the returned dict does not have is ABSENT.
check_decision_tree_readiness(message, recommended_advisor) ==
  IF AnyIn(tree_triggers, Lower(message))
  THEN [ready_for_tree |-> TRUE,
        advisor_type |-> IF recommended_advisor # ABSENT
                         THEN recommended_advisor
                         ELSE determine_advisor_from_message(message),
        message |-> "tree_prompt"]
  ELSE IF AnyIn(guidance_indicators, Lower(message))
  THEN [ready_for_tree |-> TRUE, advisor_type |-> ABSENT,
        message |-> "guidance_prompt"]
  ELSE [ready_for_tree |-> FALSE, advisor_type |-> ABSENT, message |-> ABSENT]

\* A variant that starts every tree at the root.
StartNodeOf_Root(advisor_type, message, debt) ==
  [raised |-> FALSE, current_node_id |-> "root"]

\* The node the tree is entered at; comparing a debt of None with 0 raises.
StartNodeOf(advisor_type, message, debt) ==
  IF advisor_type = "investment"
  THEN [raised |-> FALSE, current_node_id |-> "investment_risk"]
  ELSE IF advisor_type = "tax"
  THEN [raised |-> FALSE, current_node_id |-> "tax_situation"]
  ELSE IF "debt" \in PhrasesIn(Lower(message))
  THEN [raised |-> FALSE, current_node_id |-> "debt_type"]
  ELSE IF debt = NONE THEN [raised |-> TRUE, current_node_id |-> NONE]
  ELSE IF debt = "30" THEN [raised |-> FALSE, current_node_id |-> "debt_type"]
  ELSE [raised |-> FALSE, current_node_id |-> "root"]

\* transition_to_decision_tree(user_id, message, context), the context given
\* by its "recommended_advisor" and its profile's debt.
transition_to_decision_tree(message, recommended_advisor, debt) ==
  LET readiness_check == check_decision_tree_readiness(message, recommended_advisor)
      advisor_type ==
        IF readiness_check.advisor_type # ABSENT
        THEN readiness_check.advisor_type
        ELSE IF recommended_advisor # ABSENT THEN recommended_advisor
        ELSE "financial"
      node == StartNodeOf(advisor_type, message, debt)
  IN  IF ~readiness_check.ready_for_tree
      THEN [transition_to_tree |-> FALSE, advisor_type |-> ABSENT,
            current_node_id |-> NONE, raised |-> FALSE]
      ELSE [transition_to_tree |-> ~node.raised, advisor_type |-> advisor_type,
            current_node_id |-> node.current_node_id, raised |-> node.raised]

\* The messages and contexts the functions are called with.
IntentMessages ==
  {"hello", "podatki", "akcje", "kredyt", "kapital", "PIT i umowa",
   "podatek i akcje", "umowa i akcje", "akcje i kredyt", "pokaz opcje",
   "pokaz opcje akcje", "Pokaz opcje podatki", "pokaz opcje debt",
   "pokaz opcje: podatki i akcje", "pokaz opcje: umowa i akcje",
   "co powinienem", "co proponujesz, co powinienem"}

\* The "recommended_advisor" entry of a context: no key, None, a category.
ContextAdvisors == {ABSENT, NONE} \cup DOMAIN keywords

InitIntent ==
  /\ users = NoUsers
  /\ \E message \in IntentMessages, recommended_advisor \in ContextAdvisors,
        debt \in {ABSENT, "0", "30", NONE} :
       turn = [NoTurn EXCEPT !.message = message,
                            !.recommended_advisor = recommended_advisor,
                            !.debt = debt]
  /\ form = NoForm
  /\ call = NoCall
  /\ profile_stored = FALSE
  /\ context = EmptyContext
  /\ cur = NONE
  /\ request = NoRequest
  /\ response = NoResponse
  /\ path = <<>>
  /\ replay = NoReplay

Classify ==
  /\ turn.op = NONE
  /\ turn' = [turn EXCEPT
                !.op = "classify",
                !.advisor_type = determine_advisor_from_message(turn.message)]
  /\ UNCHANGED <<form, call, profile_stored>>
  /\ UNCHANGED <<treeVars, userVars>>

CheckReadiness ==
  /\ turn.op = NONE
  /\ LET r == check_decision_tree_readiness(turn.message,
                                            turn.recommended_advisor)
     IN  turn' = [turn EXCEPT !.op = "check_readiness",
                              !.ready = r.ready_for_tree,
                              !.advisor_type = r.advisor_type]
  /\ UNCHANGED <<form, call, profile_stored>>
  /\ UNCHANGED <<treeVars, userVars>>

Transition ==
  /\ turn.op = NONE
  /\ LET r == transition_to_decision_tree(turn.message,
                                          turn.recommended_advisor, turn.debt)
     IN  turn' = [turn EXCEPT !.op = "transition",
                              !.ready = r.transition_to_tree,
                              !.advisor_type = r.advisor_type,
                              !.start_node = r.current_node_id,
                              !.raised = r.raised]
  /\ UNCHANGED <<form, call, profile_stored>>
  /\ UNCHANGED <<treeVars, userVars>>

NextIntent == Classify \/ CheckReadiness \/ Transition

SpecIntent == InitIntent /\ [][NextIntent]_vars

\* ------------------------------------------- AIChatSelector.handle_message
\* "pomin formularz" in message.lower()
IsSkipCommand(message) == "pomin formularz" \in PhrasesIn(Lower(message))

\* A variant that takes every message for the restart command.
IsRestartCommand_Always(message) == TRUE

\* "wypelnij formularz" in message.lower() or "start formularz" in ...
IsRestartCommand(message) ==
  PhrasesIn(Lower(message)) \cap {"wypelnij formularz", "start formularz"} # {}

\* The form of a user when the message is handled: a user without a form
\* gets a new one, complete at once when a profile was loaded from the store.
FormOnArrival(f, db_profile) ==
  IF f.exists THEN f
  ELSE IF db_profile THEN [FreshForm EXCEPT !.is_complete = TRUE]
  ELSE FreshForm

\* _load_profile_from_database: the stored row with its recommended_advisor
\* column, nothing when there is no row or the query fails.
load_profile_from_database(stored, env) ==
  IF env.load_fails \/ ~stored
  THEN [found |-> FALSE, recommended_advisor |-> ABSENT]
  ELSE [found |-> TRUE, recommended_advisor |-> env.db_advisor]

\* A variant that hands a ready message on to the advisor as well.
ReadyReply_Advice(readiness_check) == [ready |-> FALSE, reply |-> Plain("advice")]

\* tree_transition.get("ready_for_tree", False) and the prompt returned.
ReadyReply(readiness_check) ==
  [ready |-> readiness_check.ready_for_tree,
   reply |-> Plain(readiness_check.message)]

\* A variant that classifies the message before it looks at the context.
AssignedAdvisor_MessageFirst(message, recommended_advisor, nested) ==
  [assigned |-> NONE,
   advisor_type |-> determine_advisor_from_message(message)]

\* The advisor of a free-form turn: the context's entry, else its behavioral
\* profile's, and the classification of the message when that is empty.
AssignedAdvisor(message, recommended_advisor, nested) ==
  LET assigned == IF recommended_advisor # ABSENT THEN recommended_advisor
                  ELSE IF nested # ABSENT THEN nested
                  ELSE NONE
  IN  [assigned |-> assigned,
       advisor_type |-> IF ~Truthy(assigned)
                        THEN determine_advisor_from_message(message)
                        ELSE assigned]

\* The body of handle_message's try block.  f: the user's form (NoForm for a
\* user first seen), stored: whether the store holds the user's profile,
\* recommended_advisor and nested: the caller's context, env: what the store
\* and the advisor do in this turn.  raised: an exception left the body.
handle_message_body(f, stored, message, recommended_advisor, nested, env) ==
  LET first_seen == ~f.exists
      db == IF first_seen THEN load_profile_from_database(stored, env)
            ELSE [found |-> FALSE, recommended_advisor |-> ABSENT]
      f0 == FormOnArrival(f, db.found)
      top == IF db.found THEN db.recommended_advisor ELSE recommended_advisor
      nes == IF db.found THEN ABSENT ELSE nested
      base == [form |-> f0, reply |-> NoCall.reply, stored |-> stored,
               did |-> IF ~first_seen THEN {}
                       ELSE IF env.load_fails
                       THEN {"create_form", "load", "load_failed"}
                       ELSE {"create_form", "load"},
               ready |-> FALSE, advisor_type |-> ABSENT,
               db_profile |-> IF db.found THEN db.recommended_advisor
                              ELSE ABSENT,
               raised |-> FALSE]
  IN  IF message = NONE THEN [base EXCEPT !.raised = TRUE]
      ELSE IF ~f0.is_complete
      THEN IF IsSkipCommand(message)
           THEN [base EXCEPT !.form = [f0 EXCEPT !.is_complete = TRUE],
                             !.reply = Plain("form_skipped"),
                             !.did = @ \cup {"skip"}]
           ELSE LET r == process_answer(f0, message)
                IN  [base EXCEPT
                       !.form = r.form,
                       !.reply = r.reply,
                       !.stored = stored \/ (r.form.is_complete /\ ~env.save_fails),
                       !.did = @ \cup {"process_answer"} \cup
                               IF ~r.form.is_complete THEN {}
                               ELSE IF env.save_fails
                               THEN {"get_profile_data", "save", "save_failed"}
                               ELSE {"get_profile_data", "save"}]
      ELSE IF IsRestartCommand(message)
      THEN LET r == get_next_question(FreshForm)
           IN  [base EXCEPT !.form = r.form, !.reply = r.reply,
                            !.did = @ \cup {"restart"}]
      ELSE LET ready == ReadyReply(check_decision_tree_readiness(message, top))
               a == AssignedAdvisor(message, top, nes)
           IN  IF ready.ready
               THEN [base EXCEPT !.reply = ready.reply, !.ready = TRUE,
                                 !.did = @ \cup {"readiness"}]
               ELSE [base EXCEPT
                       !.reply = Plain("advice"),
                       !.advisor_type = a.advisor_type,
                       !.did = @ \cup {"readiness", "update_advisor", "advice"}
                               \cup IF ~Truthy(a.assigned) THEN {"classify"}
                                    ELSE {},
                       !.raised = env.advice_fails]

\* A variant without the except clause.
handle_message_NoExcept(f, stored, message, recommended_advisor, nested, env) ==
  handle_message_body(f, stored, message, recommended_advisor, nested, env)

\* handle_message(message, user_id, context): whatever is raised in the
\* body is logged and answered with the apology.
handle_message(f, stored, message, recommended_advisor, nested, env) ==
  LET r == handle_message_body(f, stored, message, recommended_advisor,
                               nested, env)
  IN  IF r.raised
      THEN [r EXCEPT !.raised = FALSE, !.reply = Plain("apology")]
      ELSE r

\* What the store and the advisor may do in a turn: the query of the load
\* or the save fails, the stored row holds this advisor, the advisor raises.
\* Only what the turn can meet is drawn: the load of a user first seen, the
\* save of a form being filled, the advisor behind a complete form.
Envs(f, stored) ==
  { env \in [load_fails : BOOLEAN, save_fails : BOOLEAN,
             advice_fails : BOOLEAN, db_advisor : {NONE, "tax", "investment"}] :
      /\ f.exists => ~env.load_fails
      /\ (f.exists \/ ~stored \/ env.load_fails) => env.db_advisor = NONE
      /\ (f.exists /\ f.is_complete) => ~env.save_fails
      /\ (f.exists /\ ~f.is_complete) => ~env.advice_fails }

\* The turn record of a handle_message call.
TurnOf(op, message, recommended_advisor, nested, r) ==
  [NoTurn EXCEPT !.op = op, !.message = message,
                 !.recommended_advisor = recommended_advisor,
                 !.nested = nested, !.ready = r.ready,
                 !.advisor_type = r.advisor_type, !.did = r.did,
                 !.db_profile = r.db_profile, !.raised = r.raised]

\* The messages of one user: answers, the commands, requests for guidance,
\* questions, and a message that is not a string.
RouterMessages(f) ==
  {"30", "pomin formularz", "wypelnij formularz", "pokaz opcje akcje", NONE}
    \cup (IF f.exists /\ f.is_complete THEN {} ELSE {"a", "Pomin formularz"})
    \cup (IF f.exists /\ ~f.is_complete THEN {}
          ELSE {"co powinienem", "podatki", "akcje i kredyt"})

\* The router starts with no form; the store may hold the user's profile.
InitRouter ==
  /\ users = NoUsers
  /\ form = NoForm
  /\ call = NoCall
  /\ profile_stored \in BOOLEAN
  /\ turn = NoTurn
  /\ context = EmptyContext
  /\ cur = NONE
  /\ request = NoRequest
  /\ response = NoResponse
  /\ path = <<>>
  /\ replay = NoReplay

\* handle_message(message, user_id, {}), as the endpoints call it.
HandleMessage(message, env) ==
  \E r \in {handle_message(form, profile_stored, message, ABSENT, ABSENT, env)} :
      /\ form' = r.form
      /\ call' = [op |-> "handle_message", answer |-> message,
                  reply |-> r.reply]
      /\ profile_stored' = r.stored
      /\ turn' = TurnOf("handle_message", message, ABSENT, ABSENT, r)
      /\ UNCHANGED <<treeVars, userVars>>

Message ==
  \E message \in RouterMessages(form) : \E env \in Envs(form, profile_stored) :
    HandleMessage(message, env)

NextRouter == Message

SpecRouter == InitRouter /\ [][NextRouter]_vars

\* -------------------------------------------- POST /chat (main.py)
\* chat_with_assistant for the first user message of the request (a string:
\* ChatMessage.content).  A user who is filling the form is handed to
\* handle_message, and is greeted when the form is complete afterwards;
\* every other user's message is first checked for tree readiness.
ChatWithAssistant(message, env) ==
  \E r \in {handle_message(form, profile_stored, message, ABSENT, ABSENT, env)},
     readiness \in {check_decision_tree_readiness(message, ABSENT)} :
  \E out \in
       {IF form.exists /\ ~form.is_complete
        THEN IF r.form.is_complete
             THEN [r EXCEPT
                     !.reply = Plain("welcome"),
                     !.stored = @ \/ ~env.save_fails,
                     !.did = @ \cup {"get_profile_data",
                                     "start_conversation_after_form", "save"}]
             ELSE r
        ELSE IF readiness.ready_for_tree
        THEN [r EXCEPT !.form = form, !.stored = profile_stored,
                       !.reply = Plain(readiness.message), !.ready = TRUE,
                       !.advisor_type = readiness.advisor_type,
                       !.did = {"readiness"}, !.db_profile = ABSENT]
        ELSE [r EXCEPT !.did = @ \cup {"readiness", "save_interaction"}]} :
      /\ form' = out.form
      /\ call' = [op |-> "chat", answer |-> message, reply |-> out.reply]
      /\ profile_stored' = out.stored
      /\ turn' = TurnOf("chat", message, ABSENT, ABSENT, out)
      /\ UNCHANGED <<treeVars, userVars>>

Chat ==
  \E message \in RouterMessages(form) \ {NONE} :
    \E env \in Envs(form, profile_stored) : ChatWithAssistant(message, env)

NextChat == Chat

SpecChat == InitRouter /\ [][NextChat]_vars

\* --------------------------- two users, one router and one tree engine
\* The user ids of the requests.
UserIds == {"A", "B"}

\* self.user_forms[user_id]; no form for a user id that is not a key.
UserForm(user_forms, user_id) == DictGet(user_forms, user_id, NoForm)

\* A variant that keeps one form for all user ids.
SetUserForm_ForAll(user_forms, user_id, f) == [u \in UserIds |-> f]

\* self.user_forms[user_id] = form
SetUserForm(user_forms, user_id, f) == DictSet(user_forms, user_id, f)

\* The store and the advisors answer every call of the turn.
NoFaults ==
  [load_fails |-> FALSE, save_fails |-> FALSE, advice_fails |-> FALSE,
   db_advisor |-> NONE]

\* What a user holds of the conversation: the last reply of the router, the
\* context, node and response of the tree session, the number of turns taken.
NewClient ==
  [reply |-> NoCall.reply, context |-> EmptyContext, cur |-> NONE,
   response |-> NoResponse, turns |-> 0]

\* A router without forms, the store's profile rows by user id, the users.
NewSystem(stored) ==
  [user_forms |-> EmptyDict, stored |-> stored,
   client |-> [u \in UserIds |-> NewClient]]

\* handle_message(message, user_id, {}) on the router's user_forms and the
\* store; the reply goes to the user.
MessageOf(sys, user_id, message) ==
  LET r == handle_message(UserForm(sys.user_forms, user_id),
                          sys.stored[user_id], message, ABSENT, ABSENT,
                          NoFaults)
  IN  [sys EXCEPT !.user_forms = SetUserForm(@, user_id, r.form),
                  !.stored[user_id] = r.stored,
                  !.client[user_id].reply = r.reply,
                  !.client[user_id].turns = @ + 1]

\* process_step on the engine for the user's request: the node the user was
\* given, an answer, the context the user holds.
TreeStepOf(sys, user_id, answer) ==
  LET c == sys.client[user_id]
      r == process_step(c.cur, answer, c.context)
  IN  [sys EXCEPT !.client[user_id] =
         [c EXCEPT !.context = r.context,
                   !.response = r.response,
                   !.cur = IF r.response.raised THEN c.cur ELSE r.response.node,
                   !.turns = @ + 1]]

\* The messages of a user: an answer, the skip and the restart command.
UserMessages == {"30", "pomin formularz", "wypelnij formularz"}

\* The answers of a user's tree request: none on entry, then the node's first
\* option or a value that is not an option.
UserAnswers(node_id) ==
  IF node_id = NONE THEN {NONE}
  ELSE IF tree[node_id].options = <<>> THEN {INVALID}
  ELSE {tree[node_id].options[1], INVALID}

\* users.shared is the system both users talk to; users.alone[u] is a system
\* of its own that gets the turns of user u only.  User B may have a stored
\* profile.
InitUsers ==
  /\ \E b \in BOOLEAN :
       LET sys == NewSystem([u \in UserIds |-> u = "B" /\ b])
       IN  users = [shared |-> sys, alone |-> [u \in UserIds |-> sys]]
  /\ form = NoForm
  /\ call = NoCall
  /\ profile_stored = FALSE
  /\ turn = NoTurn
  /\ context = EmptyContext
  /\ cur = NONE
  /\ request = NoRequest
  /\ response = NoResponse
  /\ path = <<>>
  /\ replay = NoReplay

\* A handle_message call for one of the users.
UserMessage ==
  \E user_id \in UserIds, message \in UserMessages :
    /\ users.shared.client[user_id].turns < MaxTurns
    /\ users' = [shared |-> MessageOf(users.shared, user_id, message),
                 alone |-> [users.alone EXCEPT
                              ![user_id] = MessageOf(@, user_id, message)]]
    /\ UNCHANGED <<treeVars, formVars>>

\* A process_step call for one of the users.
UserTreeStep ==
  \E user_id \in UserIds :
    \E answer \in UserAnswers(users.shared.client[user_id].cur) :
      /\ users.shared.client[user_id].turns < MaxTurns
      /\ users' = [shared |-> TreeStepOf(users.shared, user_id, answer),
                   alone |-> [users.alone EXCEPT
                                ![user_id] = TreeStepOf(@, user_id, answer)]]
      /\ UNCHANGED <<treeVars, formVars>>

NextUsers == UserMessage \/ UserTreeStep

SpecUsers == InitUsers /\ [][NextUsers]_vars

\* ------------------------------------ one message, any caller's context
\* handle_message is called once, with a context that may name an advisor,
\* for a user first seen, one who is filling the form, one who skipped it.
InitTurn ==
  /\ users = NoUsers
  /\ \E message \in {"30", "pomin formularz", "wypelnij formularz",
                      "pokaz opcje", "pokaz opcje akcje", "co powinienem",
                      "podatki", "akcje i kredyt", "hello", NONE},
        recommended_advisor \in ContextAdvisors,
        nested \in {ABSENT, NONE, "legal"} :
       turn = [NoTurn EXCEPT !.message = message,
                            !.recommended_advisor = recommended_advisor,
                            !.nested = nested]
  /\ form \in {NoForm, FreshForm, [FreshForm EXCEPT !.is_complete = TRUE]}
  /\ call = NoCall
  /\ profile_stored \in BOOLEAN
  /\ context = EmptyContext
  /\ cur = NONE
  /\ request = NoRequest
  /\ response = NoResponse
  /\ path = <<>>
  /\ replay = NoReplay

Turn ==
  /\ turn.op = NONE
  /\ \E env \in Envs(form, profile_stored) :
       \E r \in {handle_message(form, profile_stored, turn.message,
                                turn.recommended_advisor, turn.nested, env)} :
           /\ form' = r.form
           /\ call' = [op |-> "handle_message", answer |-> turn.message,
                       reply |-> r.reply]
           /\ profile_stored' = r.stored
           /\ turn' = TurnOf("handle_message", turn.message,
                             turn.recommended_advisor, turn.nested, r)
  /\ UNCHANGED <<treeVars, userVars>>

NextTurn == Turn

SpecTurn == InitTurn /\ [][NextTurn]_vars

\* ------------------------------------------- profiles and their advisor
\* One accepted answer for each financial field, every option of the
\* behavioral fields, and goals with and without the advisors' keywords.
ProfileAnswers(f) ==
  IF f.is_complete \/ FormIsOver(f) THEN {}
  ELSE LET field_name == CurrentField(f)
           field_data == all_fields[field_name]
       IN  IF "options" \in field_data.keys THEN Range(field_data.options)
           ELSE IF "type" \in field_data.keys THEN {"30"}
           ELSE IF field_name = "financial_goal"
           THEN {"retirement", "PIT i umowa", "umowa i akcje", "akcje", "kapital"}
           ELSE {"Polska"}

ProfileAnswer == \E answer \in ProfileAnswers(form) : FormAnswer(answer)

\* The router's skip command: is_complete is set on the form as it stands.
SkipForm == ~form.is_complete /\ MarkComplete

\* form.get_profile_data(): the recommendation is computed from the form.
GetProfileData ==
  /\ turn' = [NoTurn EXCEPT !.op = "get_profile_data",
                            !.advisor_type = recommend_advisor(form)]
  /\ UNCHANGED <<form, call, profile_stored>>
  /\ UNCHANGED <<treeVars, userVars>>

NextProfile == ProfileAnswer \/ SkipForm \/ GetProfileData

SpecProfile == InitForm /\ [][NextProfile]_vars

\* ================================================================ claims
\* The journey a context holds; a context without the key holds none.
JourneyOf(ctx) == IF "journey" \in ctx.keys THEN ctx.journey ELSE <<>>

\* The step just taken is a process_step call (every call clears the replay
\* result; every replay sets it).
IsCallStep == ~replay'.called

Accepted(current_node_id, answer) ==
  /\ current_node_id \in Nodes
  /\ tree[current_node_id].type = "question"
  /\ Truthy(answer)
  /\ answer \in DOMAIN tree[current_node_id].next_steps

\* C1: a call for a question node with an answer of its transition map returns
\* the mapped node and appends exactly that node id to the journey; any other
\* call for a node of the tree returns that node and leaves the journey as is.
C1_StepTransition ==
  [][ (IsCallStep /\ request'.current_node_id \in Nodes) =>
        LET n == request'.current_node_id
            a == request'.answer
        IN  IF Accepted(n, a)
            THEN /\ ~response'.raised
                 /\ response'.node = tree[n].next_steps[a]
                 /\ context'.journey = Append(JourneyOf(context), tree[n].next_steps[a])
            ELSE /\ ~response'.raised
                 /\ response'.node = n
                 /\ context'.journey = JourneyOf(context) ]_vars

C1_Witness ==
  /\ response.called /\ ~response.raised
  /\ Accepted(request.current_node_id, request.answer)
  /\ response.node = tree[request.current_node_id].next_steps[request.answer]
  /\ Len(context.journey) >= 2
  /\ context.journey[Len(context.journey)] = response.node

\* C2: once the context holds a financial_goal, no later call changes it.
C2_GoalImmutable ==
  [][ "financial_goal" \in context.keys =>
        /\ "financial_goal" \in context'.keys
        /\ context'.financial_goal = context.financial_goal ]_vars

\* C3: every call leaves the journey unchanged or appends exactly one node id.
C3_JourneyAppendOnly ==
  [][ \/ context'.journey = JourneyOf(context)
      \/ \E n \in Nodes : context'.journey = Append(JourneyOf(context), n) ]_vars

C3_Witness ==
  /\ response.called /\ ~response.raised
  /\ Truthy(request.answer)
  /\ ~Accepted(request.current_node_id, request.answer)
  /\ Len(context.journey) >= 3

\* The goals of the root question.
Goals == DOMAIN tree["root"].next_steps

AtRecommendation ==
  /\ response.called /\ ~response.raised
  /\ tree[response.node].type = "recommendation"

\* The session was entered without a node id on a fresh context and every
\* request since carried an answer of the node's transition map.
ValidWalk ==
  /\ JourneyOf(context) # <<>>
  /\ context.journey[1] = "root"
  /\ \A i \in DOMAIN path : Accepted(path[i].node_id, path[i].selection)
  /\ DOMAIN context.answers = {path[i].node_id : i \in DOMAIN path}

\* C4: when a walk of valid answers from tree entry reaches the goal's
\* recommendation node, the journey length equals the goal's expected path
\* length.
C4_JourneyLengthAtRecommendation ==
  (ValidWalk /\ AtRecommendation) =>
     Len(context.journey) = MaxSteps(context.answers["root"])

\* The three question nodes of a goal's path and every combination of their
\* options, as answer maps.
GoalQuestions(g) ==
  LET q1 == tree["root"].next_steps[g]
      q2 == tree[q1].next_steps[tree[q1].options[1]]
      q3 == tree[q2].next_steps[tree[q2].options[1]]
  IN  <<q1, q2, q3>>

GoalAnswerMaps(g) ==
  LET q == GoalQuestions(g)
  IN  { ("root" :> g) @@ (q[1] :> a1) @@ (q[2] :> a2) @@ (q[3] :> a3) :
          a1 \in DOMAIN tree[q[1]].next_steps,
          a2 \in DOMAIN tree[q[2]].next_steps,
          a3 \in DOMAIN tree[q[3]].next_steps }

\* The recommendations a goal emits on every path, the base (first) excepted.
CommonRecommendations ==
  [g \in Goals |->
     LET outs == {GoalGenerator(g, m).value : m \in GoalAnswerMaps(g)}
     IN  {id \in UNION {Range(o) : o \in outs} :
            \A o \in outs : \E i \in 2..Len(o) : o[i] = id}]

\* C5: at the terminal node of a valid walk the recommendation list is
\* non-empty and holds, besides the base recommendation, a recommendation the
\* goal emits on every one of its paths.
C5_CommonRecommendationReturned ==
  (ValidWalk /\ AtRecommendation) =>
     /\ response.recommendations # <<>>
     /\ \E id \in CommonRecommendations[context.answers["root"]] :
          \E i \in 2..Len(response.recommendations) :
            response.recommendations[i] = id

\* C6: a returned recommendation node comes with a non-empty recommendation
\* list, a returned question node with an empty one.
C6_RecommendationsIffRecommendationNode ==
  (response.called /\ ~response.raised) =>
     IF tree[response.node].type = "recommendation"
     THEN response.recommendations # <<>>
     ELSE response.recommendations = <<>>

Min(a, b) == IF a <= b THEN a ELSE b

\* C7: the returned progress is min(1, journey length / 4), and it never
\* decreases from one call of the session to the next.
C7_ProgressSaturatesAndGrows ==
  [][ (IsCallStep /\ ~response'.raised) =>
        /\ response'.progress[2] > 0
        /\ response'.progress[1] * 4 =
             Min(Len(context'.journey), 4) * response'.progress[2]
        /\ (response.called /\ ~response.raised) =>
             FracLeq(response.progress, response'.progress) ]_vars

C7_Witness ==
  /\ response.called /\ ~response.raised
  /\ Len(context.journey) > 4
  /\ response.progress[1] = response.progress[2]

\* C8: no process_step call raises.
C8_NeverRaises == response.called => ~response.raised

\* C9: replaying the pairs recorded by the live session returns the options
\* of the node the live session is at, whether the last answer was accepted
\* or not.
C9_ReplayIdempotent ==
  ( /\ replay.called
    /\ cur \in Nodes
    /\ path # <<>>
    /\ replay.decision_path = path
    /\ path[Len(path)] = Decision(request.current_node_id, request.answer) )
  => replay.options = tree[cur].options

\* The last pair of a replayed path names a node id and a selection, and its
\* lookup fails: the node id is not in the tree, or the selection is not in
\* that node's transition map.
LookupFails(decision_path) ==
  /\ decision_path # <<>>
  /\ LET last_decision == decision_path[Len(decision_path)]
         node_id == last_decision.node_id
         selection == last_decision.selection
     IN  /\ last_decision.kind = "dict"
         /\ Truthy(node_id) /\ Truthy(selection)
         /\ \/ node_id \notin Nodes
            \/ /\ selection # UNHASHABLE
               /\ selection \notin DOMAIN tree[node_id].next_steps

\* The replay throws: an entry is not a mapping, or the last selection of a
\* known node cannot be hashed.
ReplayThrows(step, decision_path) ==
  \/ \E i \in DOMAIN decision_path : decision_path[i].kind # "dict"
  \/ /\ step # 0
     /\ decision_path # <<>>
     /\ EntryGet(decision_path[Len(decision_path)].node_id, "root") \in Nodes
     /\ decision_path[Len(decision_path)].selection = UNHASHABLE

AnswersOf(ctx) == IF "answers" \in ctx.keys THEN ctx.answers ELSE EmptyDict

\* C11: a call with an empty node id returns the root node, appends exactly
\* one "root" to the journey and leaves the answer map as it was, also when
\* the request carries an answer.
C11_EmptyNodeEntersRoot ==
  [][ (IsCallStep /\ ~Truthy(request'.current_node_id)) =>
        /\ ~response'.raised
        /\ response'.node = "root"
        /\ JourneyOf(context') = Append(JourneyOf(context), "root")
        /\ AnswersOf(context') = AnswersOf(context) ]_vars

C11_Witness ==
  /\ response.called
  /\ ~Truthy(request.current_node_id)
  /\ request.answer = "emergency_fund"
  /\ response.node = "root"
  /\ JourneyOf(context) = <<"root">>
  /\ AnswersOf(context) = EmptyDict

\* ------------------------------------- the generators on every answer map
\* The answer map of a goal with the answers of some of its questions
\* missing: the generator call fills in its defaults for those.
GeneratorInputs ==
  UNION { { [k \in {"root"} \cup K |-> m[k]] :
              m \in GoalAnswerMaps(g), K \in SUBSET Range(GoalQuestions(g)) } :
          g \in Goals }

InitGen ==
  /\ \E answers \in GeneratorInputs :
       context = [keys |-> {"journey", "answers", "financial_goal"},
                  journey |-> <<"root">>, answers |-> answers,
                  financial_goal |-> answers["root"]]
  /\ cur = NONE
  /\ request = NoRequest
  /\ response = NoResponse
  /\ path = <<>>
  /\ replay = NoReplay
  /\ NoFormSession

\* The dispatch of _generate_recommendations on the goal, and the goal's
\* generator on the answers with their defaults.
Generate ==
  /\ ~response.called
  /\ LET r == GoalGenerator(context.answers["root"], context.answers)
     IN  response' = [NoResponse EXCEPT !.called = TRUE, !.raised = r.raised,
                                        !.recommendations = r.value]
  /\ UNCHANGED <<context, cur, request, path, replay>>
  /\ UNCHANGED <<formVars, userVars>>

NextGen == Generate

SpecGen == InitGen /\ [][NextGen]_vars

\* The id of each goal's base recommendation.
BaseRecommendation ==
  [emergency_fund |-> "emergency_fund_base",
   debt_reduction |-> "debt_reduction_base",
   home_purchase |-> "home_purchase_base",
   retirement |-> "retirement_base",
   education |-> "education_base",
   vacation |-> "vacation_base",
   other |-> "other_goal_base"]

\* C12: for every goal and every combination of its three answers, missing
\* ones defaulted, the generator returns a list whose first element is the
\* goal's base recommendation, which occurs once, and which holds exactly one
\* recommendation that the goal emits on every path.
C12_GeneratorListShape ==
  response.called =>
    LET recs == response.recommendations
        g == context.answers["root"]
    IN  /\ ~response.raised
        /\ Len(recs) >= 2
        /\ recs[1] = BaseRecommendation[g]
        /\ \A i \in 2..Len(recs) : recs[i] # BaseRecommendation[g]
        /\ Cardinality({i \in 2..Len(recs) : recs[i] \in CommonRecommendations[g]}) = 1

\* A node of the graph is a question whose transitions are keyed by exactly
\* its options, or a recommendation without options and transitions.
NodeWellFormed(n) ==
  /\ tree[n].type \in {"question", "recommendation"}
  /\ tree[n].type = "question" => TransitionKeys(n) = OptionIds(n)
  /\ tree[n].type = "recommendation" =>
       (tree[n].options = <<>> /\ TransitionKeys(n) = {})

\* C13: in the static graph every question node's transition map has exactly
\* the node's declared option ids as keys, and every recommendation node has
\* no options and no transitions; so does every node a call returns.
C13_TransitionsCoverOptions ==
  /\ \A n \in Nodes : NodeWellFormed(n)
  /\ (response.called /\ ~response.raised) =>
       (response.node \in Nodes /\ NodeWellFormed(response.node))

\* A walk that was offered a question node's options and has arrived at a
\* recommendation node.
C13_Witness ==
  /\ response.called /\ ~response.raised
  /\ tree[response.node].type = "recommendation"
  /\ tree[response.node].options = <<>>
  /\ Len(path) >= 1
  /\ tree[path[Len(path)].node_id].type = "question"
  /\ path[Len(path)].selection \in OptionIds(path[Len(path)].node_id)

\* C14: whenever the user's form reports that it is complete, every required
\* field of the form holds a value.
C14_CompleteImpliesRequiredFilled ==
  (form.exists /\ form.is_complete) => all_required_fields_filled(form)

\* The fields that come before the cursor.
Visited(f) == {field_order[i] : i \in 1..f.current_field_index}

\* A caller who gives every required field an answer the form accepts and
\* is free to leave any optional field unanswered; get_next_question is
\* always called again.
AnswerRequired ==
  /\ ~form.is_complete /\ ~FormIsOver(form)
  /\ all_fields[CurrentField(form)].required
  /\ \E answer \in FormAnswers(form) :
       /\ Validation(all_fields[CurrentField(form)], answer) = NONE
       /\ FormAnswer(answer)

SpecFormOmit ==
  InitForm /\ [][NextForm]_vars /\ WF_vars(NextQuestion) /\ WF_vars(AnswerRequired)

\* C15: whichever optional fields the user leaves unanswered, the form
\* eventually returns the summary and becomes complete.
C15_OmittedOptionalStillCompletes ==
  <>(form.is_complete /\ call.reply.kind = "summary")

\* The step just taken is a process_answer call on a form that was not
\* complete and had a field under its cursor.
IsAnswerStep ==
  /\ call'.op = "process_answer"
  /\ ~form.is_complete /\ ~FormIsOver(form)

\* Answers that are text of a number.
NumericText == {"30", "1 500,50 PLN"}

\* The answer of the step just taken is one the claim calls rejected.
OutsideField ==
  LET field_data == all_fields[CurrentField(form)]
  IN  \/ "options" \in field_data.keys
         /\ Lower(call'.answer) \notin Range(field_data.options)
      \/ "options" \notin field_data.keys /\ "type" \in field_data.keys
         /\ call'.answer \notin NumericText

\* Accepted answers can take the form from f to its completion.
RECURSIVE CanComplete(_)
CanComplete(f) ==
  \/ f.is_complete
  \/ \E answer \in FormAnswers(f) :
       LET r == process_answer(f, answer)
       IN  r.form # f /\ CanComplete(r.form)

\* C16: what process_answer rejects is a choice outside the option set or a
\* non-numeric answer to a number field; a rejection changes neither the
\* cursor nor a value nor the complete flag, replies with the validation
\* message and the same field's question, and leaves a form that can still be
\* answered and completed.
C16_RejectionLeavesFormUnchanged ==
  [][ (IsAnswerStep /\ call'.reply.kind = "invalid") =>
             /\ OutsideField
             /\ form' = form
             /\ call'.reply.field = CurrentField(form)
             /\ call'.reply.validation \in {"options", "number"}
             /\ CanComplete(form') ]_vars

C16_Witness ==
  /\ call.op = "process_answer"
  /\ call.reply = Invalid("decision_style", "options")
  /\ call.answer = "moderate"
  /\ CurrentField(form) = "decision_style"
  /\ form.values["decision_style"] = NONE
  /\ ~form.is_complete

\* C17: an accepted answer stores a value in the current field and in no
\* other, moves the cursor by one field and returns what get_next_question
\* returns, which moves the cursor further only over optional fields it
\* leaves empty; no call moves the cursor back.
C17_AcceptedAnswerAdvancesByOne ==
  [][ /\ form'.current_field_index >= form.current_field_index
      /\ (IsAnswerStep /\ call'.reply.kind # "invalid") =>
           LET name == CurrentField(form)
               i == form.current_field_index
               j == form'.current_field_index
           IN  /\ form'.values[name] # NONE
               /\ \A n \in FieldNames \ {name} : form'.values[n] = form.values[n]
               /\ j >= i + 1
               /\ \A k \in (i + 2)..j :
                    /\ ~all_fields[field_order[k]].required
                    /\ form'.values[field_order[k]] = NONE
               /\ IF j >= Len(field_order)
                  THEN form'.is_complete /\ call'.reply = Plain("summary")
                  ELSE /\ ~form'.is_complete
                       /\ call'.reply = Question(field_order[j + 1]) ]_vars

C17_Witness ==
  /\ call.op = "process_answer"
  /\ call.answer = "1 500,50 PLN"
  /\ call.reply = Question("expenses")
  /\ form.values["income"] = "1500.5"
  /\ form.values["expenses"] = NONE
  /\ CurrentField(form) = "expenses"

\* The fields that offer options.
ChoiceFields == {n \in FieldNames : "options" \in all_fields[n].keys}

\* C18: an answer to a single-choice field is accepted exactly when its
\* lower-cased form is one of the field's options; the value stored is the
\* label the mapping gives that option, and every stored single-choice value
\* is a label of the field's mapping.
C18_ChoiceStoredAsMappedLabel ==
  [][ /\ (IsAnswerStep /\ CurrentField(form) \in ChoiceFields) =>
           LET name == CurrentField(form)
               field_data == all_fields[name]
               option == Lower(call'.answer)
           IN  /\ (call'.reply.kind # "invalid") <=> (option \in Range(field_data.options))
               /\ (call'.reply.kind # "invalid") =>
                    /\ option \in DOMAIN field_data.mapping
                    /\ form'.values[name] = field_data.mapping[option]
                    /\ form'.values[name] # call'.answer
      /\ \A n \in ChoiceFields :
           form'.values[n] \in {NONE} \cup Range(all_fields[n].mapping) ]_vars

C18_Witness ==
  /\ call.op = "process_answer"
  /\ call.answer = "B"
  /\ call.reply = Question("decision_style")
  /\ form.values["risk_tolerance"] = "moderate"

\* C19: under get_next_question and process_answer calls alone the form is
\* complete only when its cursor has passed every field of the fixed order.
C19_CompleteOnlyPastLastField ==
  form.is_complete =>
    /\ form.current_field_index >= Len(field_order)
    /\ Visited(form) = FieldNames

C19_Witness ==
  /\ form.is_complete
  /\ form.current_field_index = Len(field_order)
  /\ call.op = "process_answer"
  /\ call.reply = Plain("summary")

\* C20: on a complete form neither process_answer nor get_next_question
\* changes a field value, the cursor or the complete flag.
C20_CompleteFormIsFrozen ==
  [][ (form.is_complete /\ call'.op \in {"process_answer", "get_next_question"})
        => form' = form ]_vars

C20_Witness ==
  /\ form.is_complete
  /\ form.current_field_index < Len(field_order)
  /\ call.op = "process_answer"
  /\ call.answer = "30"
  /\ call.reply = Plain("already_filled")
  /\ form.values[CurrentField(form)] = NONE

\* The advisor the profile of a form should be given: by the goal's text
\* first, then by the behavioral answers.
AdvisorByRule(f) ==
  LET goal == Lower(f.values["financial_goal"])
  IN  IF AnyIn({"podatek", "podatki", "pit", "vat", "cit"}, goal) THEN "tax"
      ELSE IF AnyIn({"prawo", "umowa", "przepisy", "regulacje"}, goal)
      THEN "legal"
      ELSE IF AnyIn({"inwestycja", "inwestowanie", "akcje", "obligacje"}, goal)
      THEN "investment"
      ELSE IF /\ f.values["risk_tolerance"] = "aggressive"
              /\ f.values["time_preference"] = "long_term"
      THEN "investment"
      ELSE "financial"

\* C21: the advisor computed for a completed profile is tax when the goal
\* holds a tax keyword, else legal, else investment by keyword, else
\* investment for an aggressive long-term profile, else financial; computing
\* it leaves the form as it was.
C21_RecommendedAdvisorByRule ==
  [][(turn'.op = "get_profile_data" /\ form.is_complete)
       => (turn'.advisor_type = AdvisorByRule(form) /\ form' = form)]_vars

\* The same for the profiles of forms that were answered to the end.
C21_AnsweredProfiles ==
  [][(turn'.op = "get_profile_data" /\ form.is_complete
        /\ all_required_fields_filled(form))
       => (turn'.advisor_type = AdvisorByRule(form) /\ form' = form)]_vars

\* The message holds a keyword of the category, an explicit request for
\* structured guidance, an implicit one.
Mentions(category, message) ==
  LET words ==
        CASE category = "tax" ->
               {"podatek", "podatki", "pit", "vat", "cit", "zeznanie", "zwrot",
                "odliczenie"}
          [] category = "legal" ->
               {"prawo", "prawne", "umowa", "przepisy", "regulacje", "ustawa",
                "kodeks", "kontrakt"}
          [] category = "investment" ->
               {"inwestycja", "inwestowanie", "akcje", "obligacje", "fundusz",
                "portfel", "etf", "dywidenda"}
          [] OTHER -> {}
  IN  PhrasesIn(Lower(message)) \cap words # {}

ExplicitRequest(message) ==
  PhrasesIn(Lower(message))
    \cap {"drzewo decyzyjne", "pokaz opcje", "co proponujesz"} # {}

ImplicitRequest(message) ==
  PhrasesIn(Lower(message))
    \cap {"co powinienem", "co powinnam", "najlepsze opcje", "powiedz mi co"}
    # {}

\* The category of the highest priority the message mentions.
TopCategory(message) ==
  IF Mentions("tax", message) THEN "tax"
  ELSE IF Mentions("legal", message) THEN "legal"
  ELSE IF Mentions("investment", message) THEN "investment"
  ELSE "financial"

\* C26 as stated: readiness is returned exactly for a message with an
\* explicit trigger or an implicit indicator; with an explicit trigger the
\* returned category is the message's classification, with an implicit
\* indicator alone no category is returned.
C26_ReadinessCategoryFromMessage ==
  turn.op = "check_readiness" =>
    /\ turn.ready <=>
         (ExplicitRequest(turn.message) \/ ImplicitRequest(turn.message))
    /\ ExplicitRequest(turn.message) =>
         turn.advisor_type = determine_advisor_from_message(turn.message)
    /\ (ImplicitRequest(turn.message) /\ ~ExplicitRequest(turn.message)) =>
         turn.advisor_type = ABSENT

\* C26 (amended): as above, but with an explicit trigger the returned
\* category is the context's "recommended_advisor" entry when the context
\* has one, and the message's classification only otherwise.
C26_ReadinessCategoryContextFirst ==
  turn.op = "check_readiness" =>
    /\ turn.ready <=>
         (ExplicitRequest(turn.message) \/ ImplicitRequest(turn.message))
    /\ ExplicitRequest(turn.message) =>
         turn.advisor_type =
           IF turn.recommended_advisor # ABSENT THEN turn.recommended_advisor
           ELSE determine_advisor_from_message(turn.message)
    /\ (ImplicitRequest(turn.message) /\ ~ExplicitRequest(turn.message)) =>
         turn.advisor_type = ABSENT

C26_Witness ==
  /\ turn.op = "check_readiness"
  /\ turn.ready
  /\ ExplicitRequest(turn.message)
  /\ Mentions("investment", turn.message)
  /\ turn.recommended_advisor = "tax"
  /\ turn.advisor_type = "tax"

\* C28: the classification of a message is one of the four categories: tax
\* when the lower-cased message holds a tax keyword, else legal, else
\* investment, by their keywords, and financial in every other case.
C28_ClassifyByPriority ==
  turn.op = "classify" =>
    /\ turn.advisor_type \in {"tax", "legal", "investment", "financial"}
    /\ turn.advisor_type = "tax" <=> Mentions("tax", turn.message)
    /\ turn.advisor_type = "legal" <=>
         (Mentions("legal", turn.message) /\ ~Mentions("tax", turn.message))
    /\ turn.advisor_type = "investment" <=>
         /\ Mentions("investment", turn.message)
         /\ ~Mentions("tax", turn.message)
         /\ ~Mentions("legal", turn.message)

C28_Witness ==
  /\ turn.op = "classify"
  /\ Mentions("tax", turn.message)
  /\ Mentions("investment", turn.message)
  /\ turn.advisor_type = "tax"

\* C29 as stated: for a message with an explicit trigger and an investment
\* keyword and a context without a recommended advisor the transition is
\* made, with category investment and start node investment_risk.
C29_InvestmentTransition ==
  (/\ turn.op = "transition"
   /\ ExplicitRequest(turn.message)
   /\ Mentions("investment", turn.message)
   /\ turn.recommended_advisor = ABSENT)
    => (/\ turn.ready
        /\ turn.advisor_type = "investment"
        /\ turn.start_node = "investment_risk")

\* C29 (amended): the same for a message that holds no tax and no legal
\* keyword beside the investment keyword.
C29_InvestmentOnlyTransition ==
  (/\ turn.op = "transition"
   /\ ExplicitRequest(turn.message)
   /\ Mentions("investment", turn.message)
   /\ ~Mentions("tax", turn.message)
   /\ ~Mentions("legal", turn.message)
   /\ turn.recommended_advisor = ABSENT)
    => (/\ turn.ready
        /\ turn.advisor_type = "investment"
        /\ turn.start_node = "investment_risk")

C29_Witness ==
  /\ turn.op = "transition"
  /\ turn.message = "pokaz opcje akcje"
  /\ turn.recommended_advisor = ABSENT
  /\ turn.ready
  /\ turn.start_node = "investment_risk"

\* The step just taken is a handle_message call for a user who has a form.
IsKnownUserTurn == turn'.op = "handle_message" /\ form.exists

\* The message holds the command that restarts the form.
RestartIn(message) ==
  PhrasesIn(Lower(message)) \cap {"wypelnij formularz", "start formularz"} # {}

\* C23: a form that is complete is complete after every later message that
\* does not hold the restart command.
C23_CompleteUntilRestart ==
  [][(IsKnownUserTurn /\ form.is_complete /\ ~RestartIn(turn'.message))
       => (form'.exists /\ form'.is_complete)]_vars

C23_Witness ==
  /\ turn.op = "handle_message"
  /\ "create_form" \notin turn.did
  /\ "advice" \in turn.did
  /\ form.is_complete

\* C24: the restart command of a user who has a form, in progress or
\* complete, puts a new form in its place and is answered with the question
\* of the first field.
C24_RestartInAnyStage ==
  [][(IsKnownUserTurn /\ RestartIn(turn'.message))
       => (form' = FreshForm /\ call'.reply = Question(field_order[1]))]_vars

\* The same for the users whose form is complete.
C24_RestartOfCompleteForm ==
  [][(IsKnownUserTurn /\ form.is_complete /\ RestartIn(turn'.message))
       => (form' = FreshForm /\ call'.reply = Question(field_order[1]))]_vars

\* The step just taken is a handle_message call that met a complete form (a
\* user first seen has one when the profile was loaded) with a message that
\* asks for guidance and is no restart command.
ReadinessDetected ==
  /\ turn'.op = "handle_message"
  /\ \/ form.exists /\ form.is_complete
     \/ ~form.exists /\ turn'.db_profile # ABSENT
  /\ turn'.message # NONE
  /\ ExplicitRequest(turn'.message) \/ ImplicitRequest(turn'.message)
  /\ ~RestartIn(turn'.message)

\* The turn returned the prompt and did nothing else to the tree session or
\* with an advisor.
OnlyPrompt ==
  /\ call'.reply.kind \in {"tree_prompt", "guidance_prompt"}
  /\ turn'.did \cap {"update_advisor", "advice"} = {}
  /\ UNCHANGED <<treeVars, userVars>>

\* C25 as stated: a turn in which readiness for the tree is detected only
\* returns the prompt: the form is as it was, no tree session is started or
\* advanced, no advisor is called.
C25_ReadinessOnlyPrompts ==
  [][ReadinessDetected => (OnlyPrompt /\ form' = form)]_vars

\* C25 (amended): the same, the form being as it was for a user who had
\* one; for a user first seen the turn has created the form, complete,
\* from the stored profile.
C25_ReadinessKeepsExistingForm ==
  [][ReadinessDetected =>
       /\ OnlyPrompt
       /\ form.exists => form' = form
       /\ ~form.exists => form' = [FreshForm EXCEPT !.is_complete = TRUE]]_vars

C25_Witness ==
  /\ turn.op = "handle_message"
  /\ turn.ready
  /\ "create_form" \notin turn.did
  /\ call.reply.kind = "tree_prompt"
  /\ form.is_complete

\* The advisor the context names when the advisor is chosen: its own entry
\* (the loaded profile's when a profile was loaded), else the entry of its
\* behavioral profile.
ExplicitAdvisor ==
  IF turn.db_profile # ABSENT THEN turn.db_profile
  ELSE IF turn.recommended_advisor # ABSENT THEN turn.recommended_advisor
  ELSE turn.nested

\* C27: in a free-form turn the advisor category is the one the context
\* names, and the classification of the message only when it names none.
C27_ContextAdvisorFirst ==
  (turn.op = "handle_message" /\ "advice" \in turn.did) =>
    turn.advisor_type =
      IF ExplicitAdvisor \in {"tax", "legal", "investment", "financial"}
      THEN ExplicitAdvisor
      ELSE determine_advisor_from_message(turn.message)

C27_Witness ==
  /\ turn.op = "handle_message"
  /\ "advice" \in turn.did
  /\ turn.message = "akcje i kredyt"
  /\ turn.recommended_advisor = "tax"
  /\ turn.advisor_type = "tax"

\* The store works and holds no profile; the advisor does as in env.
EmptyStore(env) ==
  [env EXCEPT !.load_fails = FALSE, !.save_fails = FALSE, !.db_advisor = NONE]

\* C30: whatever the user sends next and whatever fails in that turn,
\* handle_message raises nothing and returns a reply: the apology when the
\* advisor fails or the message is no string; and when the load or the save
\* fails, the reply and the form that a store without a profile gives.
C30_NeverRaisesStoreFailureAsEmpty ==
  \A message \in RouterMessages(form) : \A env \in Envs(form, profile_stored) :
    LET r == handle_message(form, profile_stored, message, ABSENT, ABSENT, env)
        e == handle_message(form, FALSE, message, ABSENT, ABSENT, EmptyStore(env))
    IN  /\ ~r.raised
        /\ r.reply.kind # NONE
        /\ (message = NONE \/ (env.advice_fails /\ "advice" \in r.did))
             => r.reply = Plain("apology")
        /\ (r.did \cap {"load_failed", "save_failed"} # {})
             => (r.reply = e.reply /\ r.form = e.form)

C30_Witness ==
  /\ turn.op = "handle_message"
  /\ \/ /\ "load_failed" \in turn.did
        /\ profile_stored
        /\ ~form.is_complete
     \/ /\ "save_failed" \in turn.did
        /\ call.reply.kind = "summary"

\* The message holds the command that skips the form.
SkipIn(message) == "pomin formularz" \in PhrasesIn(Lower(message))

\* The step just taken handled a message, not the skip command, of a user
\* whose form is incomplete: a form being filled, or none yet and no stored
\* profile to complete one.
IncompleteFormTurn(op) ==
  /\ turn'.op = op
  /\ \/ form.exists /\ ~form.is_complete
     \/ ~form.exists /\ ~profile_stored
  /\ turn'.message # NONE
  /\ ~SkipIn(turn'.message)

\* The message was given to the form and the form's reply returned, and the
\* turn did nothing else with the message.
DelegatedToForm ==
  /\ "process_answer" \in turn'.did
  /\ call'.reply =
       process_answer(IF form.exists THEN form ELSE FreshForm,
                      turn'.message).reply
  /\ turn'.did \cap {"readiness", "classify", "update_advisor", "advice"} = {}

\* C22: while the form of a user is incomplete, a user first seen included,
\* every message of a /chat turn but the skip command is given to
\* process_answer and its reply returned; readiness for the tree is not
\* looked for, the message is not classified and no advisor is called.
C22_IncompleteFormDelegates ==
  [][IncompleteFormTurn("chat") => DelegatedToForm]_vars

\* The same for the calls of handle_message.
C22_RouterDelegates ==
  [][IncompleteFormTurn("handle_message") => DelegatedToForm]_vars

\* An entry of the answer map that the call just taken added or changed.
RecordedByCall(k) ==
  /\ k \in DOMAIN AnswersOf(context')
  /\ \/ k \notin DOMAIN AnswersOf(context)
     \/ AnswersOf(context')[k] # AnswersOf(context)[k]

\* C32: every entry a returning process_step call adds to the answer map, or
\* changes in it, pairs a question node with an answer of that node's
\* transitions; a call whose answer is rejected adds and changes none.
C32_OnlyAcceptedAnswersRecorded ==
  [][ (IsCallStep /\ ~response'.raised) =>
        \A k \in DOMAIN AnswersOf(context') :
           RecordedByCall(k) => Accepted(k, AnswersOf(context')[k]) ]_vars

\* C33: the starting node id of every transition descriptor is a node of the
\* decision tree, and process_step called with it on a new context returns a
\* node.
C33_StartNodeIsTreeNode ==
  (turn.op = "transition" /\ turn.ready) =>
     /\ turn.start_node \in Nodes
     /\ ~process_step(turn.start_node, NONE, EmptyContext).response.raised

\* C36: a call that returns a question node returns a progress below 1; a
\* progress of 1 comes only with a recommendation node.
C36_FullProgressOnlyAtRecommendation ==
  (/\ response.called /\ ~response.raised
   /\ tree[response.node].type = "question")
    => response.progress[1] < response.progress[2]

\* The nodes a walk from the root is at after exactly i accepted answers.
RECURSIVE ReachAfter(_)
ReachAfter(i) ==
  IF i = 0 THEN {"root"}
  ELSE UNION { {tree[n].next_steps[k] : k \in TransitionKeys(n)} :
               n \in ReachAfter(i - 1) \cap Nodes }

\* Every transition leads to a node, and the nodes fall into five levels by
\* their distance from the root, four of questions and one of recommendations:
\* every transition leads one level down, so the graph has no cycle.
GraphIsLayered ==
  /\ \A n \in Nodes : \A k \in TransitionKeys(n) : tree[n].next_steps[k] \in Nodes
  /\ Nodes = UNION {ReachAfter(i) : i \in 0..4}
  /\ \A i \in 0..4, j \in 0..4 : i # j => ReachAfter(i) \cap ReachAfter(j) = {}
  /\ \A i \in 0..3 : \A n \in ReachAfter(i) : tree[n].type = "question"
  /\ \A n \in ReachAfter(4) :
       tree[n].type = "recommendation" /\ TransitionKeys(n) = {}

\* The answered requests of the session that were accepted.
AcceptedAnswers ==
  {i \in DOMAIN path : Accepted(path[i].node_id, path[i].selection)}

\* The session's first answered request was for the root.
WalkFromRoot == path # <<>> /\ path[1].node_id = "root"

\* C37: the graph has no cycle and every transition leads to a node; a walk
\* from the root is at a question node while it has fewer than 4 accepted
\* answers and at a recommendation node with the 4th, never has more, and a
\* request sent to a recommendation node returns that node.
C37_WalkEndsAfterFourAnswers ==
  /\ GraphIsLayered
  /\ (response.called /\ ~response.raised /\ WalkFromRoot) =>
       /\ Cardinality(AcceptedAnswers) <= 4
       /\ Cardinality(AcceptedAnswers) < 4 => tree[response.node].type = "question"
       /\ Cardinality(AcceptedAnswers) = 4 =>
            tree[response.node].type = "recommendation"
  /\ (/\ response.called /\ ~response.raised
      /\ request.current_node_id \in Nodes
      /\ tree[request.current_node_id].type = "recommendation")
       => response.node = request.current_node_id

C37_Witness ==
  /\ response.called /\ ~response.raised
  /\ WalkFromRoot
  /\ Cardinality(AcceptedAnswers) = 4
  /\ tree[response.node].type = "recommendation"
  /\ response.node \in ReachAfter(4)

\* C34: in a form driven by process_answer and get_next_question alone, a
\* cursor on an optional field finds a required field still None, so
\* get_next_question never moves the cursor past a field; and a complete form
\* holds a value for each of its 14 fields.
C34_NoFieldIsSkipped ==
  /\ (/\ ~form.is_complete /\ ~FormIsOver(form)
      /\ ~all_fields[CurrentField(form)].required)
       => ~all_required_fields_filled(form)
  /\ get_next_question(form).form.current_field_index = form.current_field_index
  /\ form.is_complete =>
       /\ Cardinality(FieldNames) = 14
       /\ \A n \in FieldNames : form.values[n] # NONE

C34_Witness ==
  /\ form.is_complete
  /\ call.op = "process_answer"
  /\ call.reply = Plain("summary")
  /\ \A n \in FieldNames : ~all_fields[n].required => form.values[n] # NONE

\* The form the message of the step just taken was given to: the user's form,
\* or the one created for a user first seen.
FormOfTurn == IF form.exists THEN form ELSE FreshForm

\* The reply of the turn before was the prompt of field n: its question, alone
\* or after a validation message.
Prompted(n) ==
  /\ call.reply.kind \in {"question", "invalid"}
  /\ call.reply.field = n

\* C35: a handle_message call gives its message to process_answer as the
\* answer to a field only when that field's prompt was returned to the user by
\* the reply before; the first message of a user without a form is not taken
\* for the answer to the first field.
C35_AnswerOnlyAfterPrompt ==
  [][ (/\ turn'.op = "handle_message"
       /\ "process_answer" \in turn'.did
       /\ ~FormIsOver(FormOfTurn))
        => Prompted(CurrentField(FormOfTurn)) ]_vars

\* C31: every turn of the chat endpoint, whichever branch handles it, has
\* saved the interaction (user message, reply, category, context) when its
\* reply is returned.
C31_EveryTurnPersisted ==
  turn.op = "chat" => "save_interaction" \in turn.did

\* C38: under every interleaving of the handle_message and process_step calls
\* of two users, each user has the form, the stored profile, the last reply
\* and the tree session of a system that ran that user's turns only.
C38_UsersDoNotInterfere ==
  \A u \in UserIds :
    /\ UserForm(users.shared.user_forms, u) = UserForm(users.alone[u].user_forms, u)
    /\ users.shared.stored[u] = users.alone[u].stored[u]
    /\ users.shared.client[u] = users.alone[u].client[u]

\* User A has answered the first field and entered the tree; user B has
\* skipped the form in between.
C38_Witness ==
  /\ UserForm(users.shared.user_forms, "A").exists
  /\ ~UserForm(users.shared.user_forms, "A").is_complete
  /\ UserForm(users.shared.user_forms, "A").values["age"] # NONE
  /\ users.shared.client["A"].cur = "root"
  /\ UserForm(users.shared.user_forms, "B").exists
  /\ UserForm(users.shared.user_forms, "B").is_complete
  /\ users.shared.client["B"].reply = Plain("form_skipped")

====
